---- MODULE Spec2Model ----
(***************************************************************************)
(* Roadmap-generation pipeline of learn/ai_service.py (class               *)
(* GroqRoadmapAI): cache lookup, gateway call, response normalisation,     *)
(* JSON decoding, task validation and enhancement, list finalisation, and  *)
(* the rule-based fallback generator.                                      *)
(*                                                                         *)
(* Texts are TLA+ strings, read character by character with SubSeq.  A     *)
(* TLA+ string cannot hold the backtick, so the character "~" stands for   *)
(* the backtick of the source's patterns (BT below); no text of the model  *)
(* uses "~" for anything else.  The display names of models.py are written *)
(* without their leading emoji (ASCII only).                               *)
(*                                                                         *)
(* Python values are tagged records:                                       *)
(*   [t |-> "str", s]   [t |-> "num", m, k]  (the number m / 10^k)         *)
(*   [t |-> "nan"]      [t |-> "inf", neg]   [t |-> "bool", b]             *)
(*   [t |-> "null"]     [t |-> "list", xs]   [t |-> "dict", d]             *)
(* where d is a function from key strings to values.                       *)
(***************************************************************************)
EXTENDS Integers, Sequences, FiniteSets, TLC

VARIABLES
    api_key_len,       \* length of the configured GROQ_API_KEY, 0 when none is set
    client,            \* self.client is not None
    roadmap_cache,     \* self.roadmap_cache: cache key -> task list
    gateway_requests,  \* requests sent to the model so far; also the clock
    pc,                \* "idle", or "gateway" while a call waits for the model
    call,              \* the operation in progress or last completed
    probe              \* input and output of the pure function under check

vars == <<api_key_len, client, roadmap_cache, gateway_requests, pc, call, probe>>

-----------------------------------------------------------------------------
(* Characters and strings                                                    *)

BT == "~"

Ch(s, i) == IF 1 <= i /\ i <= Len(s) THEN SubSeq(s, i, i) ELSE ""

From(s, i) == SubSeq(s, i, Len(s))

Min(S) == CHOOSE x \in S : \A y \in S : x <= y

Max(S) == 0 - Min({0 - x : x \in S})

\* a local variable: F with its parameter bound to the value v
With(v, F(_)) == F(v)

\* str.isspace for the characters the model's texts use
Digits == {"0", "1", "2", "3", "4", "5", "6", "7", "8", "9"}

Spaces == {" ", "\n", "\t", "\r"}

\* The scans below look at a window of w characters and double it while
\* nothing is found, so that a scan costs what it has to walk over.

\* least j >= i with (Ch(s, j) \in C) = want, Len(s) + 1 if there is none
RECURSIVE ScanFwd(_, _, _, _, _)
ScanFwd(s, i, C, want, w) ==
    IF i > Len(s) THEN Len(s) + 1
    ELSE With({j \in i..Min({i + w - 1, Len(s)}) : (Ch(s, j) \in C) = want},
              LAMBDA hit :
                  IF hit # {} THEN Min(hit)
                  ELSE ScanFwd(s, Min({i + w - 1, Len(s)}) + 1, C, want, 2 * w))

\* greatest j <= i with (Ch(s, j) \in C) = want, 0 if there is none
RECURSIVE ScanBack(_, _, _, _, _)
ScanBack(s, i, C, want, w) ==
    IF i < 1 THEN 0
    ELSE With({j \in Max({i - w + 1, 1})..i : (Ch(s, j) \in C) = want},
              LAMBDA hit :
                  IF hit # {} THEN Max(hit)
                  ELSE ScanBack(s, Max({i - w + 1, 1}) - 1, C, want, 2 * w))

FirstIn(s, i, C) == ScanFwd(s, i, C, TRUE, 8)

FirstNotIn(s, i, C) == ScanFwd(s, i, C, FALSE, 8)

\* first index >= i of a character that is not whitespace (Len(s)+1 if none)
SkipSpace(s, i) == FirstNotIn(s, i, Spaces)

\* str.strip()
Strip(s) ==
    With(FirstNotIn(s, 1, Spaces),
         LAMBDA a : IF a > Len(s) THEN ""
                    ELSE SubSeq(s, a, ScanBack(s, Len(s), Spaces, FALSE, 8)))

StartsWith(s, p) == Len(s) >= Len(p) /\ SubSeq(s, 1, Len(p)) = p

\* index of the first occurrence of the one-character string c, 0 if none
IndexOf(s, c) ==
    With(FirstIn(s, 1, {c}), LAMBDA j : IF j > Len(s) THEN 0 ELSE j)

LastIndexOf(s, c) == ScanBack(s, Len(s), {c}, TRUE, 8)

-----------------------------------------------------------------------------
(* The regular expressions of _clean_ai_response.  MatchEnd(pat, s, i) is   *)
(* the index of the last character of the match of pat that starts at i, or *)
(* 0 when pat does not match at i.  Every quantifier of these patterns is   *)
(* greedy and followed by a character outside its class, so the match at a  *)
(* position is unique.                                                      *)

FenceJson == BT \o BT \o BT \o "json"

Fence == BT \o BT \o BT

MatchEnd(pat, s, i) ==
    CASE pat = "fence_json" ->      \* ```json\s*
            IF i + 6 <= Len(s) /\ SubSeq(s, i, i + 6) = FenceJson
            THEN SkipSpace(s, i + 7) - 1 ELSE 0
      [] pat = "fence" ->           \* ```\s*
            IF i + 2 <= Len(s) /\ SubSeq(s, i, i + 2) = Fence
            THEN SkipSpace(s, i + 3) - 1 ELSE 0
      [] pat = "tag" ->             \* <[^>]+>
            IF Ch(s, i) = "<" /\ i + 1 <= Len(s) /\ Ch(s, i + 1) # ">"
            THEN With(FirstIn(s, i + 2, {">"}),
                      LAMBDA close : IF close > Len(s) THEN 0 ELSE close)
            ELSE 0
      [] pat = "comma_brace" ->     \* ,\s*}
            IF Ch(s, i) = ","
            THEN With(SkipSpace(s, i + 1),
                      LAMBDA j : IF Ch(s, j) = "}" THEN j ELSE 0)
            ELSE 0
      [] pat = "comma_bracket" ->   \* ,\s*]
            IF Ch(s, i) = ","
            THEN With(SkipSpace(s, i + 1),
                      LAMBDA j : IF Ch(s, j) = "]" THEN j ELSE 0)
            ELSE 0
      [] pat = "tracking" ->        \* [?&](utm_[^&]+|gclid|fbclid)=[^&]*
            IF Ch(s, i) \in {"?", "&"}
            THEN With(FirstIn(s, i + 1, {"&"}) - 1,
                      LAMBDA seg :
                          IF \/ /\ i + 4 <= Len(s)
                                /\ SubSeq(s, i + 1, i + 4) = "utm_"
                                /\ \E j \in (i + 6)..seg : Ch(s, j) = "="
                             \/ /\ i + 6 <= Len(s)
                                /\ SubSeq(s, i + 1, i + 6) = "gclid="
                             \/ /\ i + 7 <= Len(s)
                                /\ SubSeq(s, i + 1, i + 7) = "fbclid="
                          THEN seg ELSE 0)
            ELSE 0
      [] pat = "trailing_qa" ->     \* [?&]+$
            IF Ch(s, i) \in {"?", "&"}
            THEN With(FirstNotIn(s, i, {"?", "&"}),
                      LAMBDA e :
                          IF e = Len(s) + 1 \/ (e = Len(s) /\ Ch(s, e) = "\n")
                          THEN e - 1 ELSE 0)
            ELSE 0

\* re.sub(pat, repl, s): leftmost matches, left to right, not overlapping
RECURSIVE ReSub(_, _, _)
ReSub(pat, repl, s) ==
    With({i \in 1..Len(s) : MatchEnd(pat, s, i) > 0},
         LAMBDA starts :
             IF starts = {} THEN s
             ELSE SubSeq(s, 1, Min(starts) - 1) \o repl
                  \o ReSub(pat, repl, From(s, MatchEnd(pat, s, Min(starts)) + 1)))

EmptyTasksText == "{\"tasks\": []}"

\* _clean_ai_response (response is a string: a None content raises before it)
CleanTail(cleaned) ==
    IF StartsWith(cleaned, "{") THEN cleaned
    ELSE With(IndexOf(cleaned, "{"),
              LAMBDA brace : IF brace > 0 THEN "{" \o From(cleaned, brace + 1)
                             ELSE EmptyTasksText)

_clean_ai_response(response) ==
    With(Strip(response),
         LAMBDA cleaned :
             IF response = "" \/ cleaned = "" THEN EmptyTasksText
             ELSE CleanTail(
                      ReSub("comma_bracket", "]",
                      ReSub("comma_brace", "}",
                      ReSub("tag", "",
                      ReSub("fence", "",
                      ReSub("fence_json", "", cleaned)))))))

\* re.search(r'\{[\s\S]*\}', s).group(0) when it matches, else s unchanged
ExtractJson(s) ==
    With(IndexOf(s, "{"),
         LAMBDA a : With(LastIndexOf(s, "}"),
                         LAMBDA b : IF a > 0 /\ b > a THEN SubSeq(s, a, b) ELSE s))

-----------------------------------------------------------------------------
(* Python values                                                            *)

JStr(s) == [t |-> "str", s |-> s]

JNum(m, k) == [t |-> "num", m |-> m, k |-> k]

JInt(n) == JNum(n, 0)

JNaN == [t |-> "nan"]

JInf(neg) == [t |-> "inf", neg |-> neg]

JBool(b) == [t |-> "bool", b |-> b]

JNull == [t |-> "null"]

JList(xs) == [t |-> "list", xs |-> xs]

JDict(d) == [t |-> "dict", d |-> d]

EmptyDict == <<>>

IsStr(v) == v.t = "str"

IsList(v) == v.t = "list"

IsDict(v) == v.t = "dict"

\* bool(v): Python truthiness
Truthy(v) ==
    CASE v.t = "str"  -> v.s # ""
      [] v.t = "num"  -> v.m # 0
      [] v.t = "nan"  -> TRUE
      [] v.t = "inf"  -> TRUE
      [] v.t = "bool" -> v.b
      [] v.t = "null" -> FALSE
      [] v.t = "list" -> Len(v.xs) > 0
      [] v.t = "dict" -> DOMAIN v.d # {}

\* d[k] = v on a dict's function
Put(d, k, v) == [x \in DOMAIN d \cup {k} |-> IF x = k THEN v ELSE d[x]]

\* d.get(k, default)
Get(d, k, default) == IF k \in DOMAIN d THEN d[k] ELSE default

\* d.setdefault(k, default), as the dict it leaves
SetDefault(d, k, default) == IF k \in DOMAIN d THEN d ELSE Put(d, k, default)

Pow10(k) == CASE k = 0 -> 1 [] k = 1 -> 10 [] k = 2 -> 100 [] k = 3 -> 1000

-----------------------------------------------------------------------------
(* json.loads, for texts over the model's alphabet: objects, arrays,        *)
(* strings with the escapes \" \\ \/ \n \t \r, the literals true, false,    *)
(* null, NaN, Infinity and -Infinity, and numbers with an optional sign and *)
(* at most three decimals.  Exponents and the escapes \b \f \uXXXX do       *)
(* not occur in the texts the specifications draw.  A parse result is       *)
(* [ok, v, i]: the value and the index after it.                            *)

PFail == [ok |-> FALSE, v |-> JNull, i |-> 0]

POk(v, i) == [ok |-> TRUE, v |-> v, i |-> i]

\* index after the run of digits that starts at i (i itself if none)
DigitsEnd(s, i) == FirstNotIn(s, i, Digits)

DigitVal(c) ==
    CASE c = "0" -> 0 [] c = "1" -> 1 [] c = "2" -> 2 [] c = "3" -> 3
      [] c = "4" -> 4 [] c = "5" -> 5 [] c = "6" -> 6 [] c = "7" -> 7
      [] c = "8" -> 8 [] c = "9" -> 9

\* the value of the digit string s
RECURSIVE DigitsVal(_)
DigitsVal(s) ==
    IF s = "" THEN 0
    ELSE 10 * DigitsVal(SubSeq(s, 1, Len(s) - 1)) + DigitVal(Ch(s, Len(s)))

\* the number at i, the sign already read: an integer part without leading
\* zeros, then an optional point and decimals
ParseNumber(s, i, sign) ==
    IF Ch(s, i) \notin Digits THEN PFail
    ELSE With(IF Ch(s, i) = "0" THEN i + 1 ELSE DigitsEnd(s, i),
              LAMBDA ie :
         With(IF Ch(s, ie) = "." /\ Ch(s, ie + 1) \in Digits
              THEN DigitsEnd(s, ie + 1) ELSE ie,
              LAMBDA fe :
                  IF fe = ie
                  THEN POk(JNum(sign * DigitsVal(SubSeq(s, i, ie - 1)), 0), fe)
                  ELSE POk(JNum(sign * (DigitsVal(SubSeq(s, i, ie - 1))
                                            * Pow10(fe - ie - 1)
                                        + DigitsVal(SubSeq(s, ie + 1, fe - 1))),
                                fe - ie - 1), fe)))

Unescape(c) ==
    CASE c = "n" -> "\n" [] c = "t" -> "\t" [] c = "r" -> "\r" [] OTHER -> c

\* the string whose opening quote is at i - 1; acc is what was read so far
RECURSIVE ParseString(_, _, _)
ParseString(s, i, acc) ==
    With(FirstIn(s, i, {"\"", "\\", "\n", "\t", "\r"}),
         LAMBDA j :
             IF j > Len(s) THEN PFail
             ELSE IF Ch(s, j) = "\"" THEN POk(JStr(acc \o SubSeq(s, i, j - 1)), j + 1)
             ELSE IF Ch(s, j) = "\\" /\ Ch(s, j + 1) \in {"\"", "\\", "/", "n", "t", "r"}
             THEN ParseString(s, j + 2,
                      acc \o SubSeq(s, i, j - 1) \o Unescape(Ch(s, j + 1)))
             ELSE PFail)

Literal(s, i, word, v) ==
    IF i + Len(word) - 1 <= Len(s) /\ SubSeq(s, i, i + Len(word) - 1) = word
    THEN POk(v, i + Len(word)) ELSE PFail

RECURSIVE ParseValue(_, _), ParseMembers(_, _, _), ParseElems(_, _, _)

\* scan_once(s, i)
ParseValue(s, i) ==
    With(Ch(s, i),
         LAMBDA c :
             CASE c = "\"" -> ParseString(s, i + 1, "")
               [] c = "{" ->
                     With(SkipSpace(s, i + 1),
                          LAMBDA j : IF Ch(s, j) = "}" THEN POk(JDict(EmptyDict), j + 1)
                                     ELSE ParseMembers(s, j, EmptyDict))
               [] c = "[" ->
                     With(SkipSpace(s, i + 1),
                          LAMBDA j : IF Ch(s, j) = "]" THEN POk(JList(<<>>), j + 1)
                                     ELSE ParseElems(s, j, <<>>))
               [] c = "n" -> Literal(s, i, "null", JNull)
               [] c = "t" -> Literal(s, i, "true", JBool(TRUE))
               [] c = "f" -> Literal(s, i, "false", JBool(FALSE))
               [] c = "N" -> Literal(s, i, "NaN", JNaN)
               [] c = "I" -> Literal(s, i, "Infinity", JInf(FALSE))
               [] c = "-" -> IF Ch(s, i + 1) = "I"
                             THEN Literal(s, i, "-Infinity", JInf(TRUE))
                             ELSE ParseNumber(s, i + 1, -1)
               [] c \in Digits -> ParseNumber(s, i, 1)
               [] OTHER -> PFail)

\* the members of an object from the key at i on; d holds those read so far
ParseMembers(s, i, d) ==
    IF Ch(s, i) # "\"" THEN PFail
    ELSE With(ParseString(s, i + 1, ""), LAMBDA key :
         IF ~key.ok THEN PFail
         ELSE With(SkipSpace(s, key.i), LAMBDA colon :
         IF Ch(s, colon) # ":" THEN PFail
         ELSE With(ParseValue(s, SkipSpace(s, colon + 1)), LAMBDA val :
         IF ~val.ok THEN PFail
         ELSE With(SkipSpace(s, val.i), LAMBDA j :
         IF Ch(s, j) = "}" THEN POk(JDict(Put(d, key.v.s, val.v)), j + 1)
         ELSE IF Ch(s, j) = ","
         THEN ParseMembers(s, SkipSpace(s, j + 1), Put(d, key.v.s, val.v))
         ELSE PFail))))

\* the elements of an array from the value at i on; xs holds those read so far
ParseElems(s, i, xs) ==
    With(ParseValue(s, i), LAMBDA val :
    IF ~val.ok THEN PFail
    ELSE With(SkipSpace(s, val.i), LAMBDA j :
    IF Ch(s, j) = "]" THEN POk(JList(Append(xs, val.v)), j + 1)
    ELSE IF Ch(s, j) = ","
    THEN ParseElems(s, SkipSpace(s, j + 1), Append(xs, val.v))
    ELSE PFail))

\* json.loads(s): ok is FALSE where it raises JSONDecodeError
json_loads(s) ==
    With(ParseValue(s, SkipSpace(s, 1)),
         LAMBDA r : IF r.ok /\ SkipSpace(s, r.i) = Len(s) + 1 THEN r ELSE PFail)

-----------------------------------------------------------------------------
(* Learner profiles.  A profile is a record of the attributes the service   *)
(* reads; shape is "model" for an object that has the get_<attr>_display    *)
(* methods (models.UserProfile) and "plain" for a bare attribute object.    *)

\* dict(UserProfile.TECH_CHOICES)
TechDisplay ==
    [web |-> "Web Development", mobile |-> "Mobile Development",
     data |-> "Data Science", ai |-> "AI & Machine Learning",
     cloud |-> "Cloud Computing", cyber |-> "Cybersecurity"]

\* dict(UserProfile.PROGRAMMING_LANGUAGES)
LanguageDisplay ==
    [javascript |-> "JavaScript", python |-> "Python", java |-> "Java",
     php |-> "PHP", ruby |-> "Ruby", csharp |-> "C#", go |-> "Go",
     swift |-> "Swift", kotlin |-> "Kotlin", dart |-> "Dart", r |-> "R",
     sql |-> "SQL", julia |-> "Julia", scala |-> "Scala", cpp |-> "C++",
     c |-> "C", none |-> "Not Sure / Start with Basics"]

\* dict(UserProfile.FRAMEWORKS)
FrameworkDisplay ==
    [django |-> "Django", flask |-> "Flask", fastapi |-> "FastAPI",
     pytorch |-> "PyTorch", tensorflow |-> "TensorFlow", pandas |-> "Pandas",
     react |-> "React", vue |-> "Vue.js", angular |-> "Angular",
     express |-> "Express.js", nextjs |-> "Next.js", nestjs |-> "NestJS",
     spring |-> "Spring Boot", hibernate |-> "Hibernate",
     laravel |-> "Laravel", rails |-> "Ruby on Rails", aspnet |-> "ASP.NET",
     flutter |-> "Flutter", none |-> "No Framework / Learn Language First"]

\* get_<attr>_display(): the label of the stored code, the code itself if it
\* is not one of the choices
ChoiceDisplay(choices, value) ==
    IF value \in DOMAIN choices THEN choices[value] ELSE value

\* a read of the stored code, whatever the shape of the profile
_get_display_value_raw(profile, attr) == profile[attr]

\* _get_display_value(user_profile, attr, none_value); every attribute is set,
\* so none_value is never returned
_get_display_value(profile, attr) ==
    IF profile.shape = "model"
    THEN CASE attr = "technology_domain" ->
                 ChoiceDisplay(TechDisplay, profile.technology_domain)
           [] attr = "programming_language" ->
                 ChoiceDisplay(LanguageDisplay, profile.programming_language)
           [] attr = "framework" ->
                 ChoiceDisplay(FrameworkDisplay, profile.framework)
    ELSE profile[attr]

-----------------------------------------------------------------------------
(* Fallback generator                                                       *)

FreeCodeCamp == "https://www.freecodecamp.org/learn/"

\* _get_language_doc_url
LanguageDocUrls ==
    [python |-> "https://docs.python.org/3/tutorial/",
     javascript |-> "https://developer.mozilla.org/en-US/docs/Web/JavaScript/Guide",
     java |-> "https://docs.oracle.com/javase/tutorial/",
     cpp |-> "https://en.cppreference.com/w/",
     csharp |-> "https://docs.microsoft.com/en-us/dotnet/csharp/",
     go |-> "https://golang.org/doc/",
     rust |-> "https://doc.rust-lang.org/book/",
     php |-> "https://www.php.net/manual/en/",
     ruby |-> "https://ruby-doc.org/",
     swift |-> "https://docs.swift.org/swift-book/",
     kotlin |-> "https://kotlinlang.org/docs/",
     dart |-> "https://dart.dev/guides",
     r |-> "https://cran.r-project.org/manuals.html",
     sql |-> "https://www.w3schools.com/sql/",
     typescript |-> "https://www.typescriptlang.org/docs/"]

_get_language_doc_url(language) ==
    IF language \in DOMAIN LanguageDocUrls THEN LanguageDocUrls[language]
    ELSE FreeCodeCamp

\* _get_framework_doc_url
FrameworkDocUrls ==
    [react |-> "https://react.dev/learn",
     vue |-> "https://vuejs.org/guide/",
     angular |-> "https://angular.io/docs",
     django |-> "https://docs.djangoproject.com/",
     flask |-> "https://flask.palletsprojects.com/",
     express |-> "https://expressjs.com/",
     spring |-> "https://spring.io/guides",
     laravel |-> "https://laravel.com/docs",
     rails |-> "https://guides.rubyonrails.org/",
     flutter |-> "https://flutter.dev/docs",
     pytorch |-> "https://pytorch.org/docs/",
     tensorflow |-> "https://www.tensorflow.org/learn",
     fastapi |-> "https://fastapi.tiangolo.com/",
     pandas |-> "https://pandas.pydata.org/docs/"]

_get_framework_doc_url(framework) ==
    IF framework \in DOMAIN FrameworkDocUrls THEN FrameworkDocUrls[framework]
    ELSE FreeCodeCamp

\* a resource dict
Resource(title, url, type, estimated_time) ==
    JDict([title |-> JStr(title), url |-> JStr(url), type |-> JStr(type),
           estimated_time |-> JInt(estimated_time)])

\* a task dict as the fallback generator writes it
DefaultTask(title, description, category, hours, priority, deps, resources) ==
    JDict([title |-> JStr(title), description |-> JStr(description),
           category |-> JStr(category), estimated_hours |-> JInt(hours),
           priority |-> JStr(priority), dependencies |-> JList(deps),
           resources |-> JList(resources), ai_generated |-> JBool(FALSE)])

\* _get_default_resources(category)
_get_default_resources(category) ==
    CASE category = "concept" ->
            <<Resource("Comprehensive Learning Guide", FreeCodeCamp, "free", 60)>>
      [] category = "tool" ->
            <<Resource("Development Setup Guide",
                       "https://code.visualstudio.com/docs/setup/setup-overview",
                       "free", 45)>>
      [] OTHER -> <<Resource("Learning Resources", FreeCodeCamp, "free", 45)>>

\* _get_skill_adjusted_tasks
_get_skill_adjusted_tasks(domain, language, framework, skill_level) ==
    IF skill_level = "absolute_beginner"
    THEN << DefaultTask("Understanding " \o domain \o " Fundamentals",
                "Learn the basic concepts and purpose of " \o domain \o " development",
                "concept", 8, "high", <<>>, _get_default_resources("concept")),
            DefaultTask("Development Environment Setup",
                "Install and configure essential development tools and IDE",
                "tool", 4, "high", <<>>, _get_default_resources("tool")) >>
    ELSE IF skill_level = "beginner"
    THEN << DefaultTask(domain \o " Core Concepts Deep Dive",
                "Master the fundamental principles and patterns of " \o domain,
                "concept", 12, "high", <<>>, _get_default_resources("concept")) >>
    ELSE << DefaultTask("Advanced " \o domain \o " Architecture",
                "Explore advanced architectural patterns and best practices in "
                    \o domain,
                "concept", 15, "high", <<>>, _get_default_resources("concept")) >>

\* technology tasks with the framework task ahead of the language task
_get_technology_focused_tasks_framework_first(domain, language, framework, skill_level) ==
    (IF framework # "none"
     THEN << DefaultTask(framework \o " Framework Mastery",
                 "Learn to build robust applications using " \o framework,
                 "framework", 30, "high",
                 IF language # "none"
                 THEN <<JStr("Master " \o language \o " Essentials")>> ELSE <<>>,
                 <<Resource(framework \o " Official Docs",
                            _get_framework_doc_url(framework), "free", 150)>>) >>
     ELSE <<>>)
    \o
    (IF language # "none"
     THEN << DefaultTask("Master " \o language \o " Essentials",
                 "Comprehensive coverage of " \o language
                     \o " syntax, features, and best practices",
                 "language",
                 IF skill_level = "absolute_beginner" THEN 25 ELSE 18,
                 "high", <<>>,
                 <<Resource(language \o " Official Documentation",
                            _get_language_doc_url(language), "free", 120)>>) >>
     ELSE <<>>)

\* _get_technology_focused_tasks
_get_technology_focused_tasks(domain, language, framework, skill_level) ==
    (IF language # "none"
     THEN << DefaultTask("Master " \o language \o " Essentials",
                 "Comprehensive coverage of " \o language
                     \o " syntax, features, and best practices",
                 "language",
                 IF skill_level = "absolute_beginner" THEN 25 ELSE 18,
                 "high", <<>>,
                 <<Resource(language \o " Official Documentation",
                            _get_language_doc_url(language), "free", 120)>>) >>
     ELSE <<>>)
    \o
    (IF framework # "none"
     THEN << DefaultTask(framework \o " Framework Mastery",
                 "Learn to build robust applications using " \o framework,
                 "framework", 30, "high",
                 IF language # "none"
                 THEN <<JStr("Master " \o language \o " Essentials")>> ELSE <<>>,
                 <<Resource(framework \o " Official Docs",
                            _get_framework_doc_url(framework), "free", 150)>>) >>
     ELSE <<>>)

\* _get_practice_and_project_tasks
_get_practice_and_project_tasks(domain, time_commitment, skill_level) ==
        << DefaultTask("Hands-on Coding Practice",
               "Solidify concepts through practical coding exercises and challenges",
               "practice", Max({12, time_commitment}), "high", <<>>,
               <<Resource("Interactive Coding Platform", "https://exercism.org/",
                          "free", time_commitment * 40)>>),
           DefaultTask("Build a Real " \o domain \o " Project",
               "Create a complete, portfolio-worthy " \o domain \o " application",
               "project", Min({50, Max({20, time_commitment * 2})}), "medium",
               <<JStr("Hands-on Coding Practice")>>,
               <<Resource("Project-Based Learning Guide",
                          "https://github.com/practical-tutorials/project-based-learning",
                          "free", 60)>>),
           DefaultTask("Testing and Deployment",
               "Learn professional testing strategies and deployment techniques",
               "practice", 10, "medium",
               <<JStr("Build a Real " \o domain \o " Project")>>,
               <<Resource("Software Testing Guide",
                          "https://www.freecodecamp.org/news/test-driven-development-tutorial/",
                          "free", 90)>>) >>

\* tasks[:n]
Take(xs, n) == SubSeq(xs, 1, Min({n, Len(xs)}))

\* base_tasks with the practice and project tasks ahead of the technology tasks
base_tasks_practice_first(domain, language, framework, skill_level, time_commitment) ==
    _get_skill_adjusted_tasks(domain, language, framework, skill_level)
    \o _get_practice_and_project_tasks(domain, time_commitment, skill_level)
    \o _get_technology_focused_tasks(domain, language, framework, skill_level)

\* base_tasks of _generate_personalized_default_tasks
base_tasks(domain, language, framework, skill_level, time_commitment) ==
    _get_skill_adjusted_tasks(domain, language, framework, skill_level)
    \o _get_technology_focused_tasks(domain, language, framework, skill_level)
    \o _get_practice_and_project_tasks(domain, time_commitment, skill_level)

\* optimal_count without its lower clamp: min(10, time_commitment // 3)
optimal_count_unclamped(time_commitment) == Min({10, time_commitment \div 3})

\* optimal_count of _generate_personalized_default_tasks
optimal_count(time_commitment) == Min({10, Max({6, time_commitment \div 3})})

\* a generator that titles its tasks after the roadmap instead of the domain
_generate_personalized_default_tasks_named(profile, roadmap_name) ==
    Take(base_tasks(roadmap_name,
                    _get_display_value(profile, "programming_language"),
                    _get_display_value(profile, "framework"),
                    profile.skill_level, profile.time_commitment),
         optimal_count(profile.time_commitment))

\* _generate_personalized_default_tasks(user_profile, roadmap_name)
_generate_personalized_default_tasks(profile, roadmap_name) ==
    Take(base_tasks(_get_display_value(profile, "technology_domain"),
                    _get_display_value(profile, "programming_language"),
                    _get_display_value(profile, "framework"),
                    profile.skill_level, profile.time_commitment),
         optimal_count(profile.time_commitment))

-----------------------------------------------------------------------------
(* Task validator                                                           *)

valid_categories ==
    {"concept", "language", "framework", "tool", "project", "practice", "assessment"}

required_fields == {"title", "description", "category", "estimated_hours"}

UpperToLower ==
    [A |-> "a", B |-> "b", C |-> "c", D |-> "d", E |-> "e", F |-> "f",
     G |-> "g", H |-> "h", I |-> "i", J |-> "j", K |-> "k", L |-> "l",
     M |-> "m", N |-> "n", O |-> "o", P |-> "p", Q |-> "q", R |-> "r",
     S |-> "s", T |-> "t", U |-> "u", V |-> "v", W |-> "w", X |-> "x",
     Y |-> "y", Z |-> "z"]

\* str.lower()
RECURSIVE Lower(_)
Lower(s) ==
    IF Len(s) = 0 THEN ""
    ELSE IF Len(s) = 1
    THEN (IF s \in DOMAIN UpperToLower THEN UpperToLower[s] ELSE s)
    ELSE Lower(SubSeq(s, 1, Len(s) \div 2)) \o Lower(From(s, Len(s) \div 2 + 1))

\* str.replace(old, new) for a one-character old
RECURSIVE ReplaceCh(_, _, _)
ReplaceCh(s, old, new) ==
    IF Len(s) = 0 THEN ""
    ELSE IF Len(s) = 1 THEN (IF s = old THEN new ELSE s)
    ELSE ReplaceCh(SubSeq(s, 1, Len(s) \div 2), old, new)
         \o ReplaceCh(From(s, Len(s) \div 2 + 1), old, new)

FFail == [ok |-> FALSE, v |-> JNull]

\* float(s) for a str: surrounding whitespace, an optional sign, then nan,
\* inf or infinity in any case, or digits with an optional point
StrToFloat(s) ==
    With(Strip(s), LAMBDA u :
    With(IF Ch(u, 1) \in {"-", "+"} THEN From(u, 2) ELSE u, LAMBDA body :
    With(DigitsEnd(body, 1), LAMBDA ie :
    With(IF Ch(body, ie) = "." THEN DigitsEnd(body, ie + 1) ELSE ie, LAMBDA fe :
    With(IF Ch(body, ie) = "." THEN fe - ie - 1 ELSE 0, LAMBDA k :
        IF Lower(body) = "nan" THEN [ok |-> TRUE, v |-> JNaN]
        ELSE IF Lower(body) \in {"inf", "infinity"}
        THEN [ok |-> TRUE, v |-> JInf(Ch(u, 1) = "-")]
        ELSE IF body # "" /\ fe = Len(body) + 1 /\ (ie > 1 \/ k > 0) /\ k <= 3
        THEN [ok |-> TRUE,
              v |-> JNum((IF Ch(u, 1) = "-" THEN -1 ELSE 1)
                         * (DigitsVal(SubSeq(body, 1, ie - 1)) * Pow10(k)
                            + (IF k > 0 THEN DigitsVal(SubSeq(body, ie + 1, fe - 1))
                               ELSE 0)), k)]
        ELSE FFail)))))

\* float(v): ok is FALSE where it raises ValueError or TypeError
ToFloat(v) ==
    CASE v.t \in {"num", "nan", "inf"} -> [ok |-> TRUE, v |-> v]
      [] v.t = "bool" -> [ok |-> TRUE, v |-> JInt(IF v.b THEN 1 ELSE 0)]
      [] v.t = "str"  -> StrToFloat(v.s)
      [] OTHER -> FFail

\* hours <= 0 or hours > 100, on a float
HoursOutOfBounds(h) ==
    CASE h.t = "num" -> h.m <= 0 \/ h.m > 100 * Pow10(h.k)
      [] h.t = "inf" -> TRUE
      [] h.t = "nan" -> FALSE

\* the category fix of _validate_task, which writes into the task
FixCategory(d) ==
    IF IsStr(d["category"]) /\ d["category"].s \in valid_categories THEN d
    ELSE Put(d, "category", JStr("practice"))

\* _validate_task(task): ok is the returned bool, task the dict as it leaves it
_validate_task(task) ==
    IF ~IsDict(task) THEN [ok |-> FALSE, task |-> task]
    ELSE IF ~(required_fields \subseteq DOMAIN task.d) THEN [ok |-> FALSE, task |-> task]
    ELSE IF ~IsStr(task.d["title"]) \/ Len(Strip(task.d["title"].s)) < 5
         THEN [ok |-> FALSE, task |-> task]
    ELSE IF ~IsStr(task.d["description"]) \/ Len(Strip(task.d["description"].s)) < 10
         THEN [ok |-> FALSE, task |-> task]
    ELSE With(ToFloat(task.d["estimated_hours"]),
              LAMBDA hours : [ok |-> hours.ok /\ ~HoursOutOfBounds(hours.v),
                              task |-> JDict(FixCategory(task.d))])

-----------------------------------------------------------------------------
(* Task enhancer                                                            *)

\* a cleaner that takes the URL to have a scheme already
_clean_resource_url_unprefixed(url) ==
    ReSub("trailing_qa", "", ReSub("tracking", "", url))

\* a cleaner that leaves a trailing '?' or '&' in place
_clean_resource_url_untrimmed(url) ==
    ReSub("tracking", "",
        IF StartsWith(url, "http://") \/ StartsWith(url, "https://")
        THEN url ELSE "https://" \o url)

\* _clean_resource_url
_clean_resource_url(url) ==
    ReSub("trailing_qa", "",
        ReSub("tracking", "",
            IF StartsWith(url, "http://") \/ StartsWith(url, "https://")
            THEN url ELSE "https://" \o url))

\* the test of _validate_resources on one entry
ResourceKept(r) ==
    /\ IsDict(r)
    /\ Truthy(Get(r.d, "title", JNull))
    /\ Truthy(Get(r.d, "url", JNull))

\* the body of _validate_resources for a kept entry
CleanResource(r) ==
    JDict(SetDefault(SetDefault(
              Put(r.d, "url", JStr(_clean_resource_url(r.d["url"].s))),
              "type", JStr("free")),
              "estimated_time", JInt(30)))

\* _validate_resources without the limit of five
_validate_resources_uncapped(resources) ==
    With(SelectSeq(resources, ResourceKept),
         LAMBDA kept :
             IF \E i \in 1..Len(kept) : ~IsStr(kept[i].d["url"])
             THEN [ok |-> FALSE, xs |-> <<>>]
             ELSE [ok |-> TRUE,
                   xs |-> [j \in 1..Len(kept) |-> CleanResource(kept[j])]])

\* _validate_resources(resources): ok is FALSE where url.startswith raises
\* AttributeError because a kept entry's url is not a str
_validate_resources(resources) ==
    With(SelectSeq(resources, ResourceKept),
         LAMBDA kept :
             IF \E i \in 1..Len(kept) : ~IsStr(kept[i].d["url"])
             THEN [ok |-> FALSE, xs |-> <<>>]
             ELSE [ok |-> TRUE,
                   xs |-> Take([j \in 1..Len(kept) |-> CleanResource(kept[j])], 5)])

\* _get_smart_default_resources(task, user_profile)
_get_smart_default_resources(task, profile) ==
    With(Get(task, "category", JStr("practice")).s,
         LAMBDA category :
             IF /\ category = "language"
                /\ profile.programming_language \notin {"", "none"}
             THEN <<Resource(_get_display_value(profile, "programming_language")
                                 \o " Official Docs",
                             _get_language_doc_url(profile.programming_language),
                             "free", 60)>>
             ELSE IF category = "framework" /\ profile.framework \notin {"", "none"}
             THEN <<Resource(_get_display_value(profile, "framework")
                                 \o " Documentation",
                             _get_framework_doc_url(profile.framework), "free", 60)>>
             ELSE IF category = "project"
             THEN <<Resource("Project Ideas & Best Practices",
                        "https://github.com/practical-tutorials/project-based-learning",
                        "free", 45)>>
             ELSE <<Resource("Interactive Learning Platform", FreeCodeCamp,
                             "free", 45)>>)

\* datetime.now().isoformat() at clock reading now
IsoFormat(now) == "T" \o ToString(now)

\* _enhance_task_with_metadata(task, user_profile): ok is FALSE where it raises
\* the metadata _enhance_task_with_metadata writes last
Stamp(d, resources, now) ==
    JDict(Put(Put(Put(Put(d, "resources", JList(resources)),
              "ai_generated", JBool(TRUE)),
              "created_at", JStr(IsoFormat(now))),
              "version", JStr("1.0")))

_enhance_task_with_metadata(task, profile, now) ==
    With(SetDefault(SetDefault(SetDefault(task.d,
             "priority", JStr("medium")),
             "dependencies", JList(<<>>)),
             "resources", JList(<<>>)),
         LAMBDA d :
             IF ~Truthy(d["resources"]) \/ ~IsList(d["resources"])
             THEN [ok |-> TRUE,
                   task |-> Stamp(d, _get_smart_default_resources(d, profile), now)]
             ELSE With(_validate_resources(d["resources"].xs),
                       LAMBDA checked : [ok |-> checked.ok,
                                         task |-> Stamp(d, checked.xs, now)]))

-----------------------------------------------------------------------------
(* List finalizer                                                           *)

\* priority_order.get(x.get('priority', 'medium'), 1)
PriorityRank(task) ==
    With(Get(task.d, "priority", JStr("medium")),
         LAMBDA p : IF IsStr(p) /\ p.s = "high" THEN 0
                    ELSE IF IsStr(p) /\ p.s = "low" THEN 2
                    ELSE 1)

\* a list or dict priority is unhashable: the dict lookup raises TypeError
PriorityUnhashable(task) ==
    Get(task.d, "priority", JStr("medium")).t \in {"list", "dict"}

IsRank0(task) == PriorityRank(task) = 0

IsRank1(task) == PriorityRank(task) = 1

IsRank2(task) == PriorityRank(task) = 2

\* a sort that leaves the list as it is
SortByPriority_unsorted(tasks) == tasks

\* a supplement loop that does not look at the titles
RECURSIVE Supplement_any_title(_, _, _, _)
Supplement_any_title(tasks, default_tasks, existing_titles, ideal_count) ==
    IF default_tasks = <<>> THEN tasks
    ELSE Supplement_any_title(
             IF Len(tasks) < ideal_count
             THEN Append(tasks, Head(default_tasks)) ELSE tasks,
             Tail(default_tasks), existing_titles, ideal_count)

\* tasks.sort(key=...): list.sort is stable, and the key takes three values
SortByPriority(tasks) ==
    SelectSeq(tasks, IsRank0) \o SelectSeq(tasks, IsRank1) \o SelectSeq(tasks, IsRank2)

\* the supplement loop: default tasks appended while their title is new and
\* the list is short of ideal_count
RECURSIVE Supplement(_, _, _, _)
Supplement(tasks, default_tasks, existing_titles, ideal_count) ==
    IF default_tasks = <<>> THEN tasks
    ELSE Supplement(
             IF /\ Head(default_tasks).d["title"] \notin existing_titles
                /\ Len(tasks) < ideal_count
             THEN Append(tasks, Head(default_tasks)) ELSE tasks,
             Tail(default_tasks), existing_titles, ideal_count)

\* _finalize_task_list(tasks, user_profile): ok is FALSE where the sort raises
\* ideal_count without its upper cap: max(6, time_commitment // 2)
ideal_count_uncapped(time_commitment) == Max({6, time_commitment \div 2})

\* ideal_count of _finalize_task_list
ideal_count(time_commitment) == Min({12, Max({6, time_commitment \div 2})})

\* the truncation and the supplement of _finalize_task_list, on the sorted list
Balance(sorted, profile, count) ==
    IF Len(sorted) > count THEN Take(sorted, count)
    ELSE IF Len(sorted) < 6
    THEN Supplement(sorted,
             _generate_personalized_default_tasks(profile, "supplement"),
             {sorted[i].d["title"] : i \in 1..Len(sorted)}, count)
    ELSE sorted

_finalize_task_list(tasks, profile) ==
    IF tasks = <<>>
    THEN [ok |-> TRUE, tasks |-> _generate_personalized_default_tasks(profile, "fallback")]
    ELSE IF \E i \in 1..Len(tasks) : PriorityUnhashable(tasks[i])
    THEN [ok |-> FALSE, tasks |-> <<>>]
    ELSE [ok |-> TRUE,
          tasks |-> Balance(SortByPriority(tasks), profile,
                            ideal_count(profile.time_commitment))]

-----------------------------------------------------------------------------
(* Response parsing                                                         *)

None == [some |-> FALSE, tasks |-> <<>>]

Some(tasks) == [some |-> TRUE, tasks |-> tasks]

\* the elements of a set of strings as a sequence of str values
RECURSIVE KeysSeq(_)
KeysSeq(S) ==
    IF S = {} THEN <<>>
    ELSE <<JStr(CHOOSE x \in S : TRUE)>> \o KeysSeq(S \ {CHOOSE x \in S : TRUE})

\* what "for task in tasks" visits: ok is FALSE where tasks is not iterable
Iterate(v) ==
    CASE v.t = "list" -> [ok |-> TRUE, xs |-> v.xs]
      [] v.t = "str"  -> [ok |-> TRUE, xs |-> [i \in 1..Len(v.s) |-> JStr(Ch(v.s, i))]]
      [] v.t = "dict" -> [ok |-> TRUE, xs |-> KeysSeq(DOMAIN v.d)]
      [] OTHER -> [ok |-> FALSE, xs |-> <<>>]

\* one turn of the loop of _parse_and_enhance_response on a candidate
Admit(task, profile, now) ==
    With(_validate_task(task),
         LAMBDA v :
             IF v.ok
             THEN With(_enhance_task_with_metadata(v.task, profile, now),
                       LAMBDA e : [admitted |-> TRUE, ok |-> e.ok, task |-> e.task])
             ELSE [admitted |-> FALSE, ok |-> TRUE, task |-> task])

IsAdmitted(turn) == turn.admitted

\* the loop of _parse_and_enhance_response over the candidates, then the
\* finalizer on the admitted ones
AdmitAll(candidates, profile, now) ==
    With([i \in 1..Len(candidates) |-> Admit(candidates[i], profile, now)],
         LAMBDA turns :
             IF \E i \in 1..Len(turns) : ~turns[i].ok THEN None
             ELSE With(_finalize_task_list(
                           [j \in 1..Len(SelectSeq(turns, IsAdmitted)) |->
                               SelectSeq(turns, IsAdmitted)[j].task],
                           profile),
                       LAMBDA final : IF final.ok THEN Some(final.tasks) ELSE None))

\* _parse_and_enhance_response(ai_response, user_profile): None where it
\* returns None, which is also what every exception in it leads to
_parse_and_enhance_response(ai_response, profile, now) ==
    With(json_loads(ExtractJson(_clean_ai_response(ai_response))),
         LAMBDA data :
             IF ~data.ok \/ ~IsDict(data.v) THEN None
             ELSE With(Get(data.v.d, "tasks", JList(<<>>)),
                       LAMBDA tasks :
                           IF ~Truthy(tasks) \/ ~Iterate(tasks).ok THEN None
                           ELSE AdmitAll(Iterate(tasks).xs, profile, now)))

-----------------------------------------------------------------------------
(* Cache key                                                                *)

KeyPart(part) == ReplaceCh(Lower(part), " ", "_")

\* a key made of the whole goals text
_create_cache_key_all_goals(profile, roadmap_name) ==
    KeyPart(roadmap_name)
    \o "|" \o KeyPart(profile.technology_domain)
    \o "|" \o KeyPart(profile.programming_language)
    \o "|" \o KeyPart(profile.framework)
    \o "|" \o KeyPart(profile.skill_level)
    \o "|" \o KeyPart(ToString(profile.time_commitment))
    \o "|" \o KeyPart(profile.learning_goals)

\* _create_cache_key(user_profile, roadmap_name)
_create_cache_key(profile, roadmap_name) ==
    KeyPart(roadmap_name)
    \o "|" \o KeyPart(profile.technology_domain)
    \o "|" \o KeyPart(profile.programming_language)
    \o "|" \o KeyPart(profile.framework)
    \o "|" \o KeyPart(profile.skill_level)
    \o "|" \o KeyPart(ToString(profile.time_commitment))
    \o "|" \o KeyPart(SubSeq(profile.learning_goals, 1,
                             Min({30, Len(profile.learning_goals)})))

-----------------------------------------------------------------------------
(* Bounds and input sets                                                    *)

\* tasks in the longest model response
MaxModelTasks == 13

\* requests one service instance sends to the model
MaxRequests == 2

\* len(api_key) < 20 is "too short"
MinKeyLen == 20

Profile(shape, domain, language, framework, skill_level, goals, time_commitment) ==
    [shape |-> shape, technology_domain |-> domain,
     programming_language |-> language, framework |-> framework,
     skill_level |-> skill_level, learning_goals |-> goals,
     time_commitment |-> time_commitment]

\* the profiles of the pipeline: the first two differ in shape only
Profiles ==
    { Profile("plain", "web", "python", "django", "beginner", "", 10),
      Profile("model", "web", "python", "django", "beginner", "", 10),
      Profile("model", "data", "none", "none", "absolute_beginner",
              "Get a job", 30),
      Profile("plain", "ai", "none", "flask", "advanced", "", 101),
      Profile("plain", "mobile", "dart", "none", "intermediate", "", 1) }

RoadmapNames == {"Web Path"}

\* the exceptions chat.completions.create raises, with their base classes
ExcBases(exc) ==
    CASE exc = "APITimeoutError" ->
            {"APITimeoutError", "APIConnectionError", "APIError", "Exception"}
      [] exc = "APIConnectionError" -> {"APIConnectionError", "APIError", "Exception"}
      [] exc = "RateLimitError" ->
            {"RateLimitError", "APIStatusError", "APIError", "Exception"}
      [] exc = "AuthenticationError" ->
            {"AuthenticationError", "APIStatusError", "APIError", "Exception"}
      [] exc = "InternalServerError" ->
            {"InternalServerError", "APIStatusError", "APIError", "Exception"}
      [] exc = "TypeError" -> {"TypeError", "Exception"}
      [] exc = "ValueError" -> {"ValueError", "Exception"}

GatewayErrors ==
    {"APIConnectionError", "APITimeoutError", "RateLimitError",
     "AuthenticationError", "InternalServerError"}

Q(s) == "\"" \o s \o "\""

\* the text of one task object; hours and rest are raw JSON text
TaskText(title, description, category, hours, rest) ==
    "{\"title\": " \o Q(title) \o ", \"description\": " \o Q(description)
    \o ", \"category\": " \o Q(category) \o ", \"estimated_hours\": " \o hours
    \o rest \o "}"

RECURSIVE Join(_, _)
Join(texts, sep) ==
    IF Len(texts) = 0 THEN ""
    ELSE IF Len(texts) = 1 THEN texts[1]
    ELSE texts[1] \o sep \o Join(Tail(texts), sep)

PriorityText(i) ==
    CASE i % 4 = 0 -> ", \"priority\": \"low\""
      [] i % 4 = 1 -> ", \"priority\": \"medium\""
      [] i % 4 = 2 -> ", \"priority\": \"high\""
      [] i % 4 = 3 -> ""

\* n well-formed tasks, priorities in turn low, medium, high and missing
ManyTasksText(n) ==
    "{\"tasks\": ["
    \o Join([i \in 1..n |->
                TaskText("Task " \o ToString(i), "Study chapter " \o ToString(i),
                         "concept", ToString(i), PriorityText(i))], ", ")
    \o "]}"

ResourceText(title, url) == "{\"title\": " \o Q(title) \o ", \"url\": " \o Q(url) \o "}"

\* a fenced response with trailing commas: two admitted tasks among five
FewTasksText ==
    "~~~json\n{\"tasks\": ["
    \o TaskText("Learn Dart", "Read the language tour", "language", "8",
                ", \"priority\": \"low\", \"resources\": ["
                \o ResourceText("Tour", "dart.dev/tour?utm_source=x&gclid=y")
                \o ", " \o ResourceText("", "https://dart.dev/") \o ",]")
    \o ", " \o TaskText("abcd", "Title too short", "tool", "8", "")
    \o ", " \o TaskText("Hands-on Coding Practice", "Exercises every day", "drill",
                        "\"12\"", ", \"priority\": \"urgent\",")
    \o ", " \o TaskText("No hours at all", "Zero hours is rejected", "tool", "0", "")
    \o ", " \o TaskText("Too many hours", "Above the upper bound", "tool", "100.5", "")
    \o ",]}\n~~~"

\* one task whose hours are not a number, one plain task
NanHoursText ==
    "Here is the plan: {\"tasks\": ["
    \o TaskText("Learn by doing", "Hours given as NaN", "practice", "NaN", "")
    \o ", " \o TaskText("Read the docs", "Hours as a string", "concept", "\"nan\"", "")
    \o "]} Good luck!"

\* every candidate is rejected
AllRejectedText ==
    "{\"tasks\": [" \o TaskText("abc", "short", "tool", "8", "") \o ", 5, \"x\"]}"

ResponseTexts ==
    { ManyTasksText(MaxModelTasks),
      ManyTasksText(6),
      FewTasksText,
      NanHoursText,
      AllRejectedText,
      "",
      "   \n",
      "no json here",
      "~~~json\n{tasks:[{title:\"x\"}],}\n~~~",
      "[1, 2]",
      "[" \o ManyTasksText(1) \o "]",
      "{\"tasks\": []}",
      "{\"roadmap\": []}",
      "{\"tasks\": \"ab\"}",
      "{\"tasks\": {\"a\": 1}}",
      "{\"tasks\": 5}",
      "{\"tasks\": [" \o TaskText("Bad resource", "The url is a number", "tool", "8",
                                  ", \"resources\": [{\"title\": \"t\", \"url\": 5}]")
          \o "]}",
      "{\"tasks\": [" \o TaskText("Bad priority", "The priority is a list", "tool", "8",
                                  ", \"priority\": [\"high\"]")
          \o "]}" }

Outcome(kind, exc, text) == [kind |-> kind, exc |-> exc, text |-> text]

\* what the gateway call can end in: an exception, a response whose content
\* is None, or a response with a text
Outcomes ==
    {Outcome("error", e, "") : e \in GatewayErrors}
    \cup {Outcome("no_content", "", "")}
    \cup {Outcome("content", "", t) : t \in ResponseTexts}

-----------------------------------------------------------------------------
(* The service                                                              *)

\* a client for every configured key, whatever its length
HasClient_any_key(key_len) == key_len > 0

\* __init__ and _get_api_key: a client exists iff a key of at least
\* MinKeyLen characters is configured
HasClient(key_len) == key_len > 0 /\ ~(key_len < MinKeyLen)

\* self.roadmap_cache.get(cache_key), None when absent
CacheGet(cache, cache_key) ==
    IF cache_key \in DOMAIN cache THEN Some(cache[cache_key]) ELSE None

\* a lookup that never finds anything
CacheHit_never(cache, cache_key) == FALSE

\* the walrus test of generate_roadmap: a non-empty cached list
CacheHit(cache, cache_key) ==
    CacheGet(cache, cache_key).some /\ CacheGet(cache, cache_key).tasks # <<>>

\* the tabulated _parse_and_enhance_response, computed once per model
ParsedResponse ==
    [p \in Profiles, t \in ResponseTexts, now \in 1..MaxRequests |->
        _parse_and_enhance_response(t, p, now)]

NoCall ==
    [op |-> "none", status |-> "none", profile |-> <<>>, roadmap_name |-> "",
     cache_key |-> "", tasks |-> <<>>, source |-> "", gateway_calls |-> 0,
     outcome |-> Outcome("none", "", ""), info |-> <<>>]

Returned(c, tasks, source) ==
    [c EXCEPT !.status = "returned", !.tasks = tasks, !.source = source]

\* the except clauses of _generate_ai_roadmap and of generate_roadmap
InnerHandlers == {"APIConnectionError", "RateLimitError", "AuthenticationError", "Exception"}

OuterHandlers == {"Exception"}

Caught(exc, handlers) == ExcBases(exc) \cap handlers # {}

\* the try block of _generate_ai_roadmap after the gateway call ended in
\* outcome: the list it returns and stores, or the exception it raises
AiTry(profile, outcome, now) ==
    IF outcome.kind = "error" THEN [raised |-> outcome.exc, tasks |-> <<>>]
    ELSE IF outcome.kind = "no_content" THEN [raised |-> "TypeError", tasks |-> <<>>]
    ELSE With(ParsedResponse[profile, outcome.text, now],
              LAMBDA tasks_data :
                  IF tasks_data.some /\ tasks_data.tasks # <<>>
                  THEN [raised |-> "", tasks |-> tasks_data.tasks]
                  ELSE [raised |-> "ValueError", tasks |-> <<>>])

\* an end of _generate_ai_roadmap that sends the request once more after a
\* first failure
AiReturn_retry(c, cache, try) ==
    IF try.raised = ""
    THEN [pc |-> "idle", call |-> Returned(c, try.tasks, "model"),
          cache |-> Put(cache, c.cache_key, try.tasks)]
    ELSE IF c.gateway_calls < 2
    THEN [pc |-> "gateway", call |-> [c EXCEPT !.gateway_calls = @ + 1],
          cache |-> cache]
    ELSE [pc |-> "idle",
          call |-> Returned(c,
                       _generate_personalized_default_tasks(c.profile, c.roadmap_name),
                       "fallback"),
          cache |-> cache]

\* an end of _generate_ai_roadmap that adds its list to the list the cache
\* already holds for the key
AiReturn_appending(c, cache, try) ==
    IF try.raised = ""
    THEN [pc |-> "idle", call |-> Returned(c, try.tasks, "model"),
          cache |-> Put(cache, c.cache_key,
                        (IF c.cache_key \in DOMAIN cache THEN cache[c.cache_key] ELSE <<>>)
                        \o try.tasks)]
    ELSE [pc |-> "idle",
          call |-> Returned(c,
                       _generate_personalized_default_tasks(c.profile, c.roadmap_name),
                       "fallback"),
          cache |-> cache]

\* an end of _generate_ai_roadmap whose cache holds the latest list only
AiReturn_single_entry(c, cache, try) ==
    IF try.raised = ""
    THEN [pc |-> "idle", call |-> Returned(c, try.tasks, "model"),
          cache |-> Put(<<>>, c.cache_key, try.tasks)]
    ELSE [pc |-> "idle",
          call |-> Returned(c,
                       _generate_personalized_default_tasks(c.profile, c.roadmap_name),
                       "fallback"),
          cache |-> cache]

\* the end of _generate_ai_roadmap for what its try block did: the position,
\* the call record and the cache it leaves
AiReturn(c, cache, try) ==
    IF try.raised = ""
    THEN [pc |-> "idle", call |-> Returned(c, try.tasks, "model"),
          cache |-> Put(cache, c.cache_key, try.tasks)]
    ELSE IF Caught(try.raised, InnerHandlers) \/ Caught(try.raised, OuterHandlers)
    THEN [pc |-> "idle",
          call |-> Returned(c,
                       _generate_personalized_default_tasks(c.profile, c.roadmap_name),
                       "fallback"),
          cache |-> cache]
    ELSE [pc |-> "idle", call |-> [c EXCEPT !.status = "raised"], cache |-> cache]

\* _generate_ai_roadmap from the gateway's answer on
_generate_ai_roadmap(c, cache, outcome, now) ==
    AiReturn([c EXCEPT !.outcome = outcome], cache, AiTry(c.profile, outcome, now))

\* the record of a call to generate_roadmap that has just started
NewCall(profile, roadmap_name) ==
    [NoCall EXCEPT !.op = "generate_roadmap", !.profile = profile,
                   !.roadmap_name = roadmap_name,
                   !.cache_key = _create_cache_key(profile, roadmap_name)]

\* generate_roadmap up to its return or to the gateway request
GenerateRoadmap(profile, roadmap_name) ==
    /\ pc = "idle"
    /\ \E c \in {NewCall(profile, roadmap_name)} :
           IF CacheHit(roadmap_cache, c.cache_key)
           THEN /\ call' = Returned(c, roadmap_cache[c.cache_key], "cache")
                /\ UNCHANGED <<pc, gateway_requests>>
           ELSE IF ~client
           THEN /\ call' = Returned(c,
                        _generate_personalized_default_tasks(profile, roadmap_name),
                        "no_client")
                /\ UNCHANGED <<pc, gateway_requests>>
           ELSE /\ gateway_requests < MaxRequests
                /\ pc' = "gateway"
                /\ gateway_requests' = gateway_requests + 1
                /\ call' = [c EXCEPT !.status = "waiting", !.gateway_calls = 1]
    /\ UNCHANGED <<api_key_len, client, roadmap_cache, probe>>

\* the gateway call of _generate_ai_roadmap ends and the call completes
GatewayRespond(outcome) ==
    /\ pc = "gateway"
    /\ \E r \in {_generate_ai_roadmap(call, roadmap_cache, outcome, gateway_requests)} :
           /\ pc' = r.pc
           /\ call' = r.call
           /\ roadmap_cache' = r.cache
    /\ UNCHANGED <<api_key_len, client, gateway_requests, probe>>

\* clear_cache; the call record notes how many entries it cleared
ClearCache ==
    /\ pc = "idle"
    /\ roadmap_cache' = <<>>
    /\ call' = [NoCall EXCEPT !.op = "clear_cache", !.status = "returned",
                              !.info = [cleared |-> Cardinality(DOMAIN roadmap_cache)]]
    /\ UNCHANGED <<api_key_len, client, gateway_requests, pc, probe>>

\* get_cache_info; cache_keys is the set of the keys
GetCacheInfo ==
    /\ pc = "idle"
    /\ call' = [NoCall EXCEPT !.op = "get_cache_info", !.status = "returned",
                              !.info = [cache_size |-> Cardinality(DOMAIN roadmap_cache),
                                        cache_keys |-> DOMAIN roadmap_cache,
                                        api_available |-> client]]
    /\ UNCHANGED <<api_key_len, client, roadmap_cache, gateway_requests, pc, probe>>

KeyLens == {0, MinKeyLen - 1, MinKeyLen}

Init ==
    /\ api_key_len \in KeyLens
    /\ client = HasClient(api_key_len)
    /\ roadmap_cache = <<>>
    /\ gateway_requests = 0
    /\ pc = "idle"
    /\ call = NoCall
    /\ probe = <<>>

Next ==
    \/ \E p \in Profiles, n \in RoadmapNames : GenerateRoadmap(p, n)
    \/ \E o \in Outcomes : GatewayRespond(o)
    \/ ClearCache
    \/ GetCacheInfo

Spec == Init /\ [][Next]_vars

-----------------------------------------------------------------------------
(* The fallback generator on its own: several runs on one profile, each     *)
(* under a roadmap name and a gateway state of its own.                     *)

\* runs of the fallback generator on one profile
MaxRuns == 2

FallbackProfiles ==
    { Profile(shape, "web", language, framework, skill_level, "", time_commitment) :
        shape \in {"plain", "model"},
        language \in {"python", "none"},
        framework \in {"django", "none"},
        skill_level \in {"absolute_beginner", "beginner", "intermediate", "advanced"},
        time_commitment \in {1, 10, 30, 101} }

FallbackNames == {"Web Path", "Data Path"}

GatewayStates == {"disabled", "failing", "available"}

InitFallback ==
    /\ api_key_len = 0
    /\ client = FALSE
    /\ roadmap_cache = <<>>
    /\ gateway_requests = 0
    /\ pc = "idle"
    /\ call = NoCall
    /\ probe \in {[profile |-> p, runs |-> <<>>] : p \in FallbackProfiles}

\* one run of _generate_personalized_default_tasks
FallbackRun(roadmap_name, gateway) ==
    /\ Len(probe.runs) < MaxRuns
    /\ probe' = [probe EXCEPT !.runs = Append(@,
                    [roadmap_name |-> roadmap_name, gateway |-> gateway,
                     tasks |-> _generate_personalized_default_tasks(probe.profile,
                                                                    roadmap_name)])]
    /\ UNCHANGED <<api_key_len, client, roadmap_cache, gateway_requests, pc, call>>

NextFallback == \E n \in FallbackNames, g \in GatewayStates : FallbackRun(n, g)

SpecFallback == InitFallback /\ [][NextFallback]_vars

-----------------------------------------------------------------------------
(* The task validator on its own, on one candidate.                         *)

Absent == [t |-> "absent"]

TitleOptions ==
    {Absent, JStr("abcd"), JStr("abcde"), JStr("  abcd  "), JInt(12345)}

DescriptionOptions ==
    {Absent, JStr("too short"), JStr("long enough"), JStr("  12345678  "), JNull}

CategoryOptions == {Absent, JStr("tool"), JStr("other"), JInt(1)}

HoursOptions ==
    {Absent, JInt(0), JInt(1), JInt(100), JInt(101), JInt(-1), JNum(5, 1),
     JNum(1005, 1), JStr("8"), JStr(" 12 "), JStr("abc"), JStr("nan"), JNaN,
     JInf(FALSE), JNull, JBool(TRUE), JBool(FALSE), JList(<<JInt(8)>>)}

\* the mapping with the fields that are not Absent
Candidate(fields) ==
    JDict([k \in {x \in DOMAIN fields : fields[x] # Absent} |-> fields[k]])

Candidates ==
    {JNull, JStr("a task"), JInt(5), JList(<<>>)}
    \cup {Candidate([title |-> ti, description |-> de, category |-> ca,
                     estimated_hours |-> ho]) :
            ti \in TitleOptions, de \in DescriptionOptions,
            ca \in CategoryOptions, ho \in HoursOptions}

InitValidator ==
    /\ api_key_len = 0
    /\ client = FALSE
    /\ roadmap_cache = <<>>
    /\ gateway_requests = 0
    /\ pc = "idle"
    /\ call = NoCall
    /\ probe \in {[candidate |-> c, done |-> FALSE, result |-> [ok |-> FALSE, task |-> c]] :
                    c \in Candidates}

\* one call of _validate_task
Validate ==
    /\ ~probe.done
    /\ probe' = [probe EXCEPT !.done = TRUE, !.result = _validate_task(probe.candidate)]
    /\ UNCHANGED <<api_key_len, client, roadmap_cache, gateway_requests, pc, call>>

NextValidator == Validate

SpecValidator == InitValidator /\ [][NextValidator]_vars

-----------------------------------------------------------------------------
(* The normalizer on its own, on one JSON object text.                      *)

\* characters of the string value of the object
MaxValueLen == 3

ValueChars == {"a", " ", "<", ">", ",", "}", "]", BT}

RECURSIVE ValueStrings(_)
ValueStrings(n) ==
    IF n = 0 THEN {""}
    ELSE {v \o c : v \in ValueStrings(n - 1), c \in ValueChars \cup {""}}

\* the JSON object with one member, whose value is the string v
ObjectText(v) == "{\"note\": " \o Q(v) \o "}"

InitNormalizer ==
    /\ api_key_len = 0
    /\ client = FALSE
    /\ roadmap_cache = <<>>
    /\ gateway_requests = 0
    /\ pc = "idle"
    /\ call = NoCall
    /\ probe \in {[text |-> ObjectText(v), done |-> FALSE, cleaned |-> ""] :
                    v \in ValueStrings(MaxValueLen)}

\* one call of _clean_ai_response
Clean ==
    /\ ~probe.done
    /\ probe' = [probe EXCEPT !.done = TRUE, !.cleaned = _clean_ai_response(probe.text)]
    /\ UNCHANGED <<api_key_len, client, roadmap_cache, gateway_requests, pc, call>>

NextNormalizer == Clean

SpecNormalizer == InitNormalizer /\ [][NextNormalizer]_vars

-----------------------------------------------------------------------------
(* The URL cleaner on its own, on one resource URL.                         *)

\* query parameters of the URL
MaxParams == 2

UrlBases == {"example.com/a", "http://x.com/", "https://x.com"}

UrlParams == {"utm_source=x", "gclid=y", "fbclid=", "id=1", "q=gclid", "utm_", ""}

RECURSIVE ParamSeqs(_)
ParamSeqs(n) ==
    IF n = 0 THEN {<<>>}
    ELSE ParamSeqs(n - 1)
         \cup {Append(ps, p) : ps \in ParamSeqs(n - 1), p \in UrlParams}

\* the query string with the parameters ps
QueryText(ps) == IF ps = <<>> THEN "" ELSE "?" \o Join(ps, "&")

Urls == {base \o QueryText(ps) : base \in UrlBases, ps \in ParamSeqs(MaxParams)}

InitUrl ==
    /\ api_key_len = 0
    /\ client = FALSE
    /\ roadmap_cache = <<>>
    /\ gateway_requests = 0
    /\ pc = "idle"
    /\ call = NoCall
    /\ probe \in {[url |-> u, done |-> FALSE, cleaned |-> ""] : u \in Urls}

\* one call of _clean_resource_url
CleanUrl ==
    /\ ~probe.done
    /\ probe' = [probe EXCEPT !.done = TRUE, !.cleaned = _clean_resource_url(probe.url)]
    /\ UNCHANGED <<api_key_len, client, roadmap_cache, gateway_requests, pc, call>>

NextUrl == CleanUrl

SpecUrl == InitUrl /\ [][NextUrl]_vars

-----------------------------------------------------------------------------
(* The task enhancer on its own, on one admitted task.                      *)

\* resources supplied with the task
MaxResources == 8

\* the i-th supplied resource: a valid one with a tracked URL, or one that
\* has an empty title, has no url, or is not a mapping
ResourceEntry(i, valid) ==
    IF valid
    THEN JDict([title |-> JStr("Resource " \o ToString(i)),
                url |-> JStr("docs.example.com/" \o ToString(i) \o "?utm_source=x")])
    ELSE CASE i % 3 = 0 -> JDict([title |-> JStr(""),
                                  url |-> JStr("https://example.com/")])
           [] i % 3 = 1 -> JDict([title |-> JStr("No url")])
           [] i % 3 = 2 -> JStr("https://example.com/")

ResourceLists ==
    UNION { { [i \in 1..n |-> ResourceEntry(i, i \in V)] : V \in SUBSET (1..n) } :
              n \in 1..MaxResources }

ResourcesOptions ==
    {Absent, JNull, JList(<<>>), JStr("https://example.com/"), JDict(EmptyDict),
     JDict([title |-> JStr("Docs")])}
    \cup {JList(xs) : xs \in ResourceLists}

EnhancerTasks ==
    {Candidate([title |-> JStr("Learn Dart"),
                description |-> JStr("Read the language tour"),
                category |-> JStr(c), estimated_hours |-> JInt(8),
                resources |-> r]) :
        c \in {"language", "framework", "project", "practice"},
        r \in ResourcesOptions}

EnhancerProfile == Profile("model", "web", "python", "django", "beginner", "", 10)

InitEnhancer ==
    /\ api_key_len = 0
    /\ client = FALSE
    /\ roadmap_cache = <<>>
    /\ gateway_requests = 0
    /\ pc = "idle"
    /\ call = NoCall
    /\ probe \in {[task |-> t, done |-> FALSE, result |-> [ok |-> FALSE, task |-> t]] :
                    t \in EnhancerTasks}

\* one call of _enhance_task_with_metadata
Enhance ==
    /\ ~probe.done
    /\ probe' = [probe EXCEPT !.done = TRUE,
                              !.result = _enhance_task_with_metadata(probe.task,
                                                                     EnhancerProfile, 1)]
    /\ UNCHANGED <<api_key_len, client, roadmap_cache, gateway_requests, pc, call>>

NextEnhancer == Enhance

SpecEnhancer == InitEnhancer /\ [][NextEnhancer]_vars

-----------------------------------------------------------------------------
(* The list finalizer on its own, on one list of admitted tasks.  The list  *)
(* has up to MaxModelTasks tasks; its priorities and its titles follow one  *)
(* of a few patterns.                                                       *)

PriorityPatterns == {"high", "cycle", "odd", "list"}

TitlePatterns == {"distinct", "repeated", "fallback"}

\* the priority of the i-th task under the pattern; Absent for none
PatternPriority(pattern, i) ==
    CASE pattern = "high" -> JStr("high")
      [] pattern = "cycle" ->
            (CASE i % 3 = 0 -> JStr("low")
               [] i % 3 = 1 -> JStr("medium")
               [] i % 3 = 2 -> JStr("high"))
      [] pattern = "odd" ->
            (CASE i % 6 = 0 -> JStr("medium")
               [] i % 6 = 1 -> JStr("low")
               [] i % 6 = 2 -> JStr("urgent")
               [] i % 6 = 3 -> JStr("high")
               [] i % 6 = 4 -> Absent
               [] i % 6 = 5 -> JNull)
      [] pattern = "list" ->
            IF i = 2 THEN JList(<<JStr("high")>>) ELSE JStr("medium")

\* the title of the i-th task under the pattern
PatternTitle(pattern, i) ==
    CASE pattern = "distinct" -> "Task " \o ToString(i)
      [] pattern = "repeated" -> "Task " \o ToString(i % 2)
      [] pattern = "fallback" ->
            IF i = 1 THEN "Hands-on Coding Practice"
            ELSE IF i = 2 THEN "Testing and Deployment"
            ELSE "Task " \o ToString(i)

AdmittedTask(title, priority, i) ==
    Candidate([title |-> JStr(title),
               description |-> JStr("Study chapter " \o ToString(i)),
               category |-> JStr("concept"), estimated_hours |-> JInt(i),
               priority |-> priority])

AdmittedLists ==
    { [i \in 1..n |-> AdmittedTask(PatternTitle(tp, i), PatternPriority(pp, i), i)] :
        n \in 0..MaxModelTasks, tp \in TitlePatterns, pp \in PriorityPatterns }

FinalizerProfiles ==
    { Profile(shape, "web", language, framework, skill_level, "", time_commitment) :
        shape \in {"plain", "model"},
        language \in {"python", "none"},
        framework \in {"django", "none"},
        skill_level \in {"absolute_beginner", "beginner", "advanced"},
        time_commitment \in {10, 16, 30} }

InitFinalizer ==
    /\ api_key_len = 0
    /\ client = FALSE
    /\ roadmap_cache = <<>>
    /\ gateway_requests = 0
    /\ pc = "idle"
    /\ call = NoCall
    /\ probe \in {[tasks |-> ts, profile |-> p, done |-> FALSE,
                   result |-> [ok |-> FALSE, tasks |-> <<>>]] :
                    ts \in AdmittedLists, p \in FinalizerProfiles}

\* one call of _finalize_task_list
Finalize ==
    /\ ~probe.done
    /\ probe' = [probe EXCEPT !.done = TRUE,
                              !.result = _finalize_task_list(probe.tasks, probe.profile)]
    /\ UNCHANGED <<api_key_len, client, roadmap_cache, gateway_requests, pc, call>>

NextFinalizer == Finalize

SpecFinalizer == InitFinalizer /\ [][NextFinalizer]_vars

-----------------------------------------------------------------------------
(* The cache key on its own, on two requests.                               *)

\* a text of 30 characters
LongGoals == "Become a backend developer now"

KeyNames == {"Web Path", "web path", "web_path"}

KeyGoals ==
    {"", "Get a job", "get a job", "get_a_job",
     LongGoals, LongGoals \o "x", LongGoals \o "y"}

\* a request: a profile and a roadmap name
KeyRequests ==
    { [profile |-> Profile("plain", "web", language, "django", "beginner",
                           goals, time_commitment),
       roadmap_name |-> name] :
        language \in {"python", "Python"}, goals \in KeyGoals,
        time_commitment \in {10, 30}, name \in KeyNames }

InitKey ==
    /\ api_key_len = 0
    /\ client = FALSE
    /\ roadmap_cache = <<>>
    /\ gateway_requests = 0
    /\ pc = "idle"
    /\ call = NoCall
    /\ probe \in {[a |-> a, b |-> b, done |-> FALSE, key_a |-> "", key_b |-> ""] :
                    a \in KeyRequests, b \in KeyRequests}

\* _create_cache_key for each of the two requests
CreateKeys ==
    /\ ~probe.done
    /\ probe' = [probe EXCEPT
                    !.done = TRUE,
                    !.key_a = _create_cache_key(probe.a.profile, probe.a.roadmap_name),
                    !.key_b = _create_cache_key(probe.b.profile, probe.b.roadmap_name)]
    /\ UNCHANGED <<api_key_len, client, roadmap_cache, gateway_requests, pc, call>>

NextKey == CreateKeys

SpecKey == InitKey /\ [][NextKey]_vars

-----------------------------------------------------------------------------
(* Two threads calling generate_roadmap on one instance. probe.calls holds   *)
(* the call record of each thread; roadmap_cache is shared. A thread reads   *)
(* the cache in one step and writes it in a later one, after the gateway     *)
(* answered; the other thread can run in between.                            *)

Threads == {1, 2}

ConcurrentProfiles == {p \in Profiles : p.time_commitment \in {10, 30}}

InitConcurrent ==
    /\ api_key_len = MinKeyLen
    /\ client = HasClient(api_key_len)
    /\ roadmap_cache = <<>>
    /\ gateway_requests = 0
    /\ pc = "idle"
    /\ call = NoCall
    /\ probe = [calls |-> [t \in Threads |-> NoCall]]

\* the gateway answers that have arrived so far
Answered == Cardinality({t \in Threads : probe.calls[t].outcome.kind # "none"})

\* thread t runs generate_roadmap up to its return or to the gateway request
ThreadStart(t, profile, roadmap_name) ==
    /\ probe.calls[t].status = "none"
    /\ \E c \in {NewCall(profile, roadmap_name)} :
           IF CacheHit(roadmap_cache, c.cache_key)
           THEN /\ probe' = [probe EXCEPT !.calls[t] =
                                Returned(c, roadmap_cache[c.cache_key], "cache")]
                /\ UNCHANGED gateway_requests
           ELSE IF ~client
           THEN /\ probe' = [probe EXCEPT !.calls[t] =
                                Returned(c,
                                    _generate_personalized_default_tasks(profile, roadmap_name),
                                    "no_client")]
                /\ UNCHANGED gateway_requests
           ELSE /\ gateway_requests' = gateway_requests + 1
                /\ probe' = [probe EXCEPT !.calls[t] =
                                [c EXCEPT !.status = "waiting", !.gateway_calls = 1]]
    /\ UNCHANGED <<api_key_len, client, roadmap_cache, pc, call>>

\* the gateway call of thread t ends and the thread completes its call
ThreadRespond(t, outcome) ==
    /\ probe.calls[t].status = "waiting"
    /\ \E r \in {_generate_ai_roadmap(probe.calls[t], roadmap_cache, outcome, Answered + 1)} :
           /\ probe' = [probe EXCEPT !.calls[t] = r.call]
           /\ roadmap_cache' = r.cache
    /\ UNCHANGED <<api_key_len, client, gateway_requests, pc, call>>

NextConcurrent ==
    \/ \E t \in Threads, p \in ConcurrentProfiles, n \in RoadmapNames : ThreadStart(t, p, n)
    \/ \E t \in Threads, o \in Outcomes : ThreadRespond(t, o)

SpecConcurrent == InitConcurrent /\ [][NextConcurrent]_vars

-----------------------------------------------------------------------------
(* The profile wizard of views.py: the four step views post to one user's    *)
(* UserProfile row. probe.profile is the row, probe.response the last        *)
(* response. A form value is a JSON value; JNull stands for a key that is    *)
(* missing from request.data.                                                *)

\* the row UserProfile.objects.create(user, name, email) makes at registration
NewUserProfile ==
    [technology_domain |-> "", programming_language |-> "none", framework |-> "none",
     skill_level |-> "", learning_goals |-> "", time_commitment |-> 10,
     step_completed |-> 1]

\* UserProfile.is_profile_complete
is_profile_complete(profile) == profile.step_completed = 5

DomainValues == {JNull, JStr(""), JStr("web"), JStr("data")}

LanguageValues == {JNull, JStr(""), JStr("python"), JStr("dart")}

\* request.data.get('framework', 'none')
FrameworkValues == {JStr("none"), JStr(""), JStr("django")}

SkillLevelValues == {JNull, JStr(""), JStr("beginner"), JStr("advanced")}

\* request.data.get('learning_goals', '')
GoalsValues == {"", "Get a job"}

\* request.data.get('time_commitment', 10)
TimeCommitmentValues == {10, 30}

InitWizard ==
    /\ api_key_len = 0
    /\ client = FALSE
    /\ roadmap_cache = <<>>
    /\ gateway_requests = 0
    /\ pc = "idle"
    /\ call = NoCall
    /\ probe = [profile |-> NewUserProfile, response |-> [view |-> "none", status |-> 0]]

\* a response that leaves the row as it is
Reject(view) ==
    probe' = [probe EXCEPT !.response = [view |-> view, status |-> 400]]

\* profile.save() and the 200 response
Save(view, profile) ==
    probe' = [profile |-> profile, response |-> [view |-> view, status |-> 200]]

\* Step1DomainView.post
Step1DomainPost(domain) ==
    /\ IF ~Truthy(domain)
       THEN Reject("step1")
       ELSE Save("step1", [probe.profile EXCEPT !.technology_domain = domain.s,
                                                !.step_completed = 2])
    /\ UNCHANGED <<api_key_len, client, roadmap_cache, gateway_requests, pc, call>>

\* Step2LanguageView.post
Step2LanguagePost(language) ==
    /\ IF probe.profile.technology_domain = ""
       THEN Reject("step2")
       ELSE IF ~Truthy(language)
       THEN Reject("step2")
       ELSE Save("step2", [probe.profile EXCEPT !.programming_language = language.s,
                                                !.step_completed = 3])
    /\ UNCHANGED <<api_key_len, client, roadmap_cache, gateway_requests, pc, call>>

\* Step3FrameworkView.post
Step3FrameworkPost(framework) ==
    /\ IF probe.profile.programming_language = ""
       THEN Reject("step3")
       ELSE Save("step3", [probe.profile EXCEPT !.framework = framework.s,
                                                !.step_completed = 4])
    /\ UNCHANGED <<api_key_len, client, roadmap_cache, gateway_requests, pc, call>>

\* Step4SkillLevelView.post
Step4SkillLevelPost(skill_level, learning_goals, time_commitment) ==
    /\ IF ~Truthy(skill_level)
       THEN Reject("step4")
       ELSE Save("step4", [probe.profile EXCEPT !.skill_level = skill_level.s,
                                                !.learning_goals = learning_goals,
                                                !.time_commitment = time_commitment,
                                                !.step_completed = 5])
    /\ UNCHANGED <<api_key_len, client, roadmap_cache, gateway_requests, pc, call>>

NextWizard ==
    \/ \E domain \in DomainValues : Step1DomainPost(domain)
    \/ \E language \in LanguageValues : Step2LanguagePost(language)
    \/ \E framework \in FrameworkValues : Step3FrameworkPost(framework)
    \/ \E skill_level \in SkillLevelValues, learning_goals \in GoalsValues,
          time_commitment \in TimeCommitmentValues :
           Step4SkillLevelPost(skill_level, learning_goals, time_commitment)

SpecWizard == InitWizard /\ [][NextWizard]_vars

-----------------------------------------------------------------------------
(* Properties                                                               *)

\* the call record is that of a generate_roadmap call that has ended
Ended == call.op = "generate_roadmap" /\ call.status # "waiting"

\* the fallback generator's list for the profile of the call record
FallbackList == _generate_personalized_default_tasks(call.profile, call.roadmap_name)

\* C1: every generate_roadmap call that has ended, whatever the gateway did,
\* has returned (it has not raised) and its list is not empty.
C1_ReturnsNonEmptyList == Ended => call.status = "returned" /\ call.tasks # <<>>

\* a call has ended after the gateway raised an exception that is none of the
\* three the code names
C1_Witness ==
    /\ Ended
    /\ call.outcome.kind = "error"
    /\ call.outcome.exc = "InternalServerError"
    /\ call.status = "returned"
    /\ Len(call.tasks) >= 1

\* C2: the list of every generate_roadmap call that has returned has
\* between 1 and 12 tasks.
C2_OneToTwelveTasks ==
    (call.op = "generate_roadmap" /\ call.status = "returned")
        => (1 <= Len(call.tasks) /\ Len(call.tasks) <= 12)

\* the longest model response has been cut down to 12 tasks
C2_Witness ==
    /\ Ended
    /\ call.source = "model"
    /\ call.outcome.text = ManyTasksText(MaxModelTasks)
    /\ Len(call.tasks) = 12

\* estimated_hours parses to a number h with 0 < h <= 100
HoursInRange(v) ==
    /\ ToFloat(v).ok
    /\ ToFloat(v).v.t = "num"
    /\ ToFloat(v).v.m > 0
    /\ ToFloat(v).v.m <= 100 * Pow10(ToFloat(v).v.k)

\* the validator's constraints on a task: title, description, category, hours
WithinBounds(task) ==
    /\ IsDict(task)
    /\ required_fields \subseteq DOMAIN task.d
    /\ IsStr(task.d["title"]) /\ Len(Strip(task.d["title"].s)) >= 5
    /\ IsStr(task.d["description"]) /\ Len(Strip(task.d["description"].s)) >= 10
    /\ IsStr(task.d["category"]) /\ task.d["category"].s \in valid_categories
    /\ HoursInRange(task.d["estimated_hours"])

\* C3: every task of every list generate_roadmap returns has a title of
\* trimmed length >= 5, a description of trimmed length >= 10, a category of
\* the closed set and estimated hours h with 0 < h <= 100.
C3_ReturnedTasksWithinBounds ==
    (call.op = "generate_roadmap" /\ call.status = "returned")
        => \A i \in 1..Len(call.tasks) : WithinBounds(call.tasks[i])

\* the fields of a profile that a caller sets, apart from the object's shape
SameFields(p, q) ==
    /\ p.technology_domain = q.technology_domain
    /\ p.programming_language = q.programming_language
    /\ p.framework = q.framework
    /\ p.skill_level = q.skill_level
    /\ p.learning_goals = q.learning_goals
    /\ p.time_commitment = q.time_commitment

\* C4: when a generate_roadmap call has returned a list obtained from the
\* model and the next call has the same roadmap name and the same profile
\* fields, that call returns at once, with the identical list, and the
\* gateway is not invoked.
C4_SecondCallHitsCache ==
    [][ ( /\ pc = "idle"
          /\ call.op = "generate_roadmap"
          /\ call.status = "returned"
          /\ call.source = "model"
          /\ call'.op = "generate_roadmap"
          /\ call'.roadmap_name = call.roadmap_name
          /\ SameFields(call'.profile, call.profile) )
        => ( /\ call'.status = "returned"
             /\ call'.tasks = call.tasks
             /\ gateway_requests' = gateway_requests
             /\ pc' = "idle" ) ]_vars

\* a call was served from the cache after the gateway had been used
C4_Witness ==
    /\ Ended
    /\ call.source = "cache"
    /\ call.gateway_calls = 0
    /\ gateway_requests >= 1
    /\ call.tasks = roadmap_cache[call.cache_key]

C6_NoKeyNoGateway ==
    api_key_len < MinKeyLen =>
        /\ gateway_requests = 0
        /\ pc = "idle"
        /\ call.op = "generate_roadmap" =>
              /\ call.status = "returned"
              /\ call.gateway_calls = 0
              /\ call.tasks = FallbackList

\* a call has returned on an instance whose key is one character too short
C6_Witness ==
    /\ api_key_len = MinKeyLen - 1
    /\ Ended
    /\ call.source = "no_client"
    /\ call.tasks # <<>>

\* the gateway call of the call record failed or gave nothing parsable
GatewayFailed ==
    \/ call.outcome.kind \in {"error", "no_content"}
    \/ /\ call.outcome.kind = "content"
       /\ ~ParsedResponse[call.profile, call.outcome.text, 1].some

\* C7: a generate_roadmap call invokes the gateway at most once; when that
\* invocation fails or its output cannot be parsed the call has returned
\* the fallback generator's list after this one invocation.
C7_GatewayInvokedAtMostOnce ==
    call.op = "generate_roadmap" =>
        /\ call.gateway_calls <= 1
        /\ (call.outcome.kind # "none" /\ GatewayFailed) =>
              /\ call.status = "returned"
              /\ pc = "idle"
              /\ call.gateway_calls = 1
              /\ call.tasks = FallbackList

\* a call has returned the fallback list after the gateway timed out
C7_Witness ==
    /\ Ended
    /\ call.outcome.exc = "APITimeoutError"
    /\ call.gateway_calls = 1
    /\ call.source = "fallback"

\* the conditions under which a candidate is to be admitted
Admissible(c) ==
    /\ IsDict(c)
    /\ required_fields \subseteq DOMAIN c.d
    /\ IsStr(c.d["title"]) /\ Len(Strip(c.d["title"].s)) >= 5
    /\ IsStr(c.d["description"]) /\ Len(Strip(c.d["description"].s)) >= 10
    /\ HoursInRange(c.d["estimated_hours"])

\* C8: _validate_task admits a candidate if and only if it is a mapping with
\* the four required fields, a string title of trimmed length >= 5, a string
\* description of trimmed length >= 10 and estimated hours that parse to a
\* number h with 0 < h <= 100; an admitted candidate keeps a category of the
\* closed set and gets "practice" in place of any other.
C8_AdmitsIffWellFormed ==
    probe.done =>
        /\ probe.result.ok <=> Admissible(probe.candidate)
        /\ probe.result.ok =>
              probe.result.task.d["category"] =
                  IF /\ IsStr(probe.candidate.d["category"])
                     /\ probe.candidate.d["category"].s \in valid_categories
                  THEN probe.candidate.d["category"]
                  ELSE JStr("practice")

\* the text decodes to a JSON object
WellFormedObject(text) == json_loads(text).ok /\ IsDict(json_loads(text).v)

\* C9: _clean_ai_response returns a text that is already a well-formed JSON
\* object exactly as it is.
C9_CleanKeepsWellFormedObject ==
    (probe.done /\ WellFormedObject(probe.text)) => probe.cleaned = probe.text

\* the normalized text does not decode to an object with a non-empty tasks list
NoTasksList ==
    [t \in ResponseTexts |->
        With(json_loads(ExtractJson(_clean_ai_response(t))),
             LAMBDA data :
                 ~ /\ data.ok
                   /\ IsDict(data.v)
                   /\ "tasks" \in DOMAIN data.v.d
                   /\ IsList(data.v.d["tasks"])
                   /\ data.v.d["tasks"].xs # <<>>)]

\* C10: when the text the gateway returns does not normalize to an object
\* with a non-empty tasks list, the call returns the fallback generator's
\* list and the cache is left as it was.
C10_UnusableTextLeavesCacheAlone ==
    [][ ( /\ pc = "gateway"
          /\ pc' = "idle"
          /\ call'.outcome.kind = "content"
          /\ NoTasksList[call'.outcome.text] )
        => ( /\ call'.status = "returned"
             /\ call'.tasks = _generate_personalized_default_tasks(call.profile,
                                                                   call.roadmap_name)
             /\ roadmap_cache' = roadmap_cache ) ]_vars

\* s[a..b], empty when a > b
Slice(s, a, b) == IF a > b THEN "" ELSE SubSeq(s, a, b)

\* the query parameter name=value is a tracking parameter: its name is gclid
\* or fbclid, or begins with utm_
TrackingParam(param) ==
    With(IndexOf(param, "="),
         LAMBDA e : /\ e > 0
                    /\ \/ Slice(param, 1, e - 1) \in {"gclid", "fbclid"}
                       \/ e > 5 /\ StartsWith(param, "utm_"))

\* the URL has a tracking parameter after some '?' or '&'
HasTrackingParam(url) ==
    \E i \in 1..Len(url) :
        /\ Ch(url, i) \in {"?", "&"}
        /\ TrackingParam(Slice(url, i + 1, FirstIn(url, i + 1, {"?", "&"}) - 1))

HasScheme(url) == StartsWith(url, "http://") \/ StartsWith(url, "https://")

\* the URL up to its first '?' or '&'
BeforeQuery(url) == Slice(url, 1, FirstIn(url, 1, {"?", "&"}) - 1)

\* C11: _clean_resource_url puts https:// before a URL without an http:// or
\* https:// scheme and leaves the others as they begin; the cleaned URL has
\* no utm_*, gclid or fbclid parameter; and
\* "example.com/a?utm_source=x&gclid=y" becomes "https://example.com/a".
C11_CleanUrlSchemeAndTracking ==
    probe.done =>
        /\ StartsWith(probe.cleaned,
                      (IF HasScheme(probe.url) THEN "" ELSE "https://")
                      \o BeforeQuery(probe.url))
        /\ ~HasTrackingParam(probe.cleaned)
        /\ probe.url = "example.com/a?utm_source=x&gclid=y"
              => probe.cleaned = "https://example.com/a"

\* the URL of the claim's example has been cleaned
C11_Witness ==
    /\ probe.done
    /\ probe.url = "example.com/a?utm_source=x&gclid=y"
    /\ HasTrackingParam(probe.url)
    /\ ~HasScheme(probe.url)

\* C12 as the code has it: _clean_resource_url maps "http://x.com/?" to
\* "http://x.com/"; the dangling '?' is removed and the '/' before it is kept.
C12_DanglingMarkRemovedSlashKept ==
    (probe.done /\ probe.url = "http://x.com/?") => probe.cleaned = "http://x.com/"

\* "http://x.com/?" has been cleaned
C12_Witness == probe.done /\ probe.url = "http://x.com/?"

\* C12 as stated: _clean_resource_url maps "http://x.com/?" to "http://x.com",
\* which ends neither in '?' nor in '/'.
C12_DanglingMarkAndSlashRemoved ==
    (probe.done /\ probe.url = "http://x.com/?") => probe.cleaned = "http://x.com"

\* a valid resource: a mapping with a non-empty title and a non-empty url
ValidResource(r) ==
    /\ IsDict(r)
    /\ "title" \in DOMAIN r.d /\ IsStr(r.d["title"]) /\ r.d["title"].s # ""
    /\ "url" \in DOMAIN r.d /\ IsStr(r.d["url"]) /\ r.d["url"].s # ""

\* the task was supplied with a non-empty list of resources
ResourcesSupplied(task) ==
    /\ "resources" \in DOMAIN task.d
    /\ IsList(task.d["resources"])
    /\ task.d["resources"].xs # <<>>

\* the valid ones among the resources supplied with the task, in their order
ValidSupplied(task) ==
    IF ResourcesSupplied(task)
    THEN SelectSeq(task.d["resources"].xs, ValidResource) ELSE <<>>

\* the resources of the enhanced task
Enhanced == probe.result.task.d["resources"].xs

\* C13: for a task supplied with resources of which v are valid, the enhancer
\* keeps exactly min(v, 5) of them: the first valid ones in their order, each
\* with its title and its cleaned url.
C13_KeepsFirstFiveValid ==
    (probe.done /\ ResourcesSupplied(probe.task)) =>
        /\ probe.result.ok
        /\ Len(Enhanced) = Min({Len(ValidSupplied(probe.task)), 5})
        /\ \A j \in 1..Len(Enhanced) :
              /\ Enhanced[j].d["title"] = ValidSupplied(probe.task)[j].d["title"]
              /\ Enhanced[j].d["url"] =
                     JStr(_clean_resource_url(ValidSupplied(probe.task)[j].d["url"].s))

\* a task supplied with 8 valid resources has been enhanced and has 5
C13_Witness ==
    /\ probe.done
    /\ Len(ValidSupplied(probe.task)) = 8
    /\ Len(Enhanced) = 5

\* C14: every enhanced task has at least one resource; a task supplied with
\* no valid resource (resources missing, empty, not a list, or a list with no
\* valid entry) gets the default resources of its category.
C14_DefaultsWhenNoneValid ==
    probe.done =>
        /\ probe.result.ok
        /\ Len(Enhanced) >= 1
        /\ ValidSupplied(probe.task) = <<>> =>
              Enhanced = _get_smart_default_resources(probe.task.d, EnhancerProfile)

\* the rank of a task by priority: high 0, low 2, medium and every other or
\* missing priority 1
RankOf(task) ==
    IF "priority" \notin DOMAIN task.d THEN 1
    ELSE IF task.d["priority"] = JStr("high") THEN 0
    ELSE IF task.d["priority"] = JStr("low") THEN 2
    ELSE 1

\* the titles of the tasks of a list
Titles(tasks) == {tasks[i].d["title"] : i \in 1..Len(tasks)}

\* the place of a task in a list of tasks with distinct titles
Place(task, tasks) ==
    CHOOSE i \in 1..Len(tasks) : tasks[i].d["title"] = task.d["title"]

\* how often a task occurs in a list
Occurrences(task, tasks) == Cardinality({i \in 1..Len(tasks) : tasks[i] = task})

\* the tasks of the result that the finalizer took from its input
FromInput == Take(probe.result.tasks, Len(probe.tasks))

\* min(12, max(6, time_commitment div 2))
TargetCount(time_commitment) ==
    IF time_commitment \div 2 < 6 THEN 6
    ELSE IF time_commitment \div 2 > 12 THEN 12
    ELSE time_commitment \div 2

\* C15: for a non-empty input the finalizer returns the tasks it takes from
\* the input ordered high, medium, low, a missing or other priority counting
\* as medium, and tasks of equal priority in the order they had in the input.
C15_StableSortByPriority ==
    (probe.done /\ probe.tasks # <<>>) =>
        /\ probe.result.ok
        /\ \A j \in 1..Len(FromInput) : Occurrences(FromInput[j], probe.tasks) > 0
        /\ \A i, j \in 1..Len(FromInput) :
              i < j =>
                  /\ RankOf(FromInput[i]) <= RankOf(FromInput[j])
                  /\ ( /\ RankOf(FromInput[i]) = RankOf(FromInput[j])
                       /\ Cardinality(Titles(probe.tasks)) = Len(probe.tasks) )
                     => Place(FromInput[i], probe.tasks) < Place(FromInput[j], probe.tasks)

\* how many tasks of a list have the rank r
RankCount(r, tasks) == Cardinality({i \in 1..Len(tasks) : RankOf(tasks[i]) = r})

\* C16: with more than min(12, max(6, time_commitment div 2)) admitted tasks
\* the finalizer returns that many, in priority order, and none of the tasks
\* it drops has a higher priority than one it keeps; a list of 6 up to that
\* many tasks is returned with the same tasks, none added and none removed.
C16_TruncatesToIdealCount ==
    (probe.done /\ probe.result.ok /\ probe.tasks # <<>>) =>
        /\ Len(probe.tasks) > TargetCount(probe.profile.time_commitment) =>
              /\ Len(probe.result.tasks) = TargetCount(probe.profile.time_commitment)
              /\ \A i, j \in 1..Len(probe.result.tasks) :
                    i < j => RankOf(probe.result.tasks[i]) <= RankOf(probe.result.tasks[j])
              /\ \A j \in 1..Len(probe.result.tasks) :
                    Occurrences(probe.result.tasks[j], probe.result.tasks)
                        <= Occurrences(probe.result.tasks[j], probe.tasks)
              /\ \A r \in 0..2 :
                    \/ RankCount(r, probe.result.tasks) = RankCount(r, probe.tasks)
                    \/ \A q \in (r + 1)..2 : RankCount(q, probe.result.tasks) = 0
        /\ ( /\ Len(probe.tasks) >= 6
             /\ Len(probe.tasks) <= TargetCount(probe.profile.time_commitment) ) =>
              /\ Len(probe.result.tasks) = Len(probe.tasks)
              /\ \A j \in 1..Len(probe.tasks) :
                    Occurrences(probe.tasks[j], probe.result.tasks)
                        = Occurrences(probe.tasks[j], probe.tasks)

\* a list of mixed priorities with one task too many has been cut to 12
C16_Witness ==
    /\ probe.done
    /\ probe.result.ok
    /\ Len(probe.tasks) = 13
    /\ Len(probe.result.tasks) = 12
    /\ RankCount(2, probe.result.tasks) < RankCount(2, probe.tasks)
    /\ RankCount(0, probe.tasks) > 0

\* the fallback task has a title that no task of the input has
NewTitle(task) == task.d["title"] \notin Titles(probe.tasks)

\* the fallback tasks the finalizer can append to the input
Appendable ==
    SelectSeq(_generate_personalized_default_tasks(probe.profile, "supplement"),
              NewTitle)

\* C17: with 1 to 5 admitted tasks the finalizer keeps all of them and
\* appends fallback tasks in fallback order, leaving out those whose title
\* the input has, until the list has ideal_count tasks or no fallback task
\* is left; the result has at most ideal_count tasks.
C17_SupplementsShortList ==
    (probe.done /\ probe.result.ok /\ Len(probe.tasks) \in 1..5) =>
        /\ Len(FromInput) = Len(probe.tasks)
        /\ \A j \in 1..Len(probe.tasks) :
              Occurrences(probe.tasks[j], FromInput)
                  = Occurrences(probe.tasks[j], probe.tasks)
        /\ probe.result.tasks =
              FromInput
              \o Take(Appendable,
                      TargetCount(probe.profile.time_commitment) - Len(probe.tasks))
        /\ Len(probe.result.tasks) <= TargetCount(probe.profile.time_commitment)

\* a short list that has a fallback title was filled up to ideal_count, with
\* fallback tasks left over
C17_Witness ==
    /\ probe.done
    /\ probe.result.ok
    /\ Len(probe.tasks) \in 1..5
    /\ JStr("Hands-on Coding Practice") \in Titles(probe.tasks)
    /\ Len(probe.result.tasks) = TargetCount(probe.profile.time_commitment)
    /\ Len(Appendable) > Len(probe.result.tasks) - Len(probe.tasks)

\* C18: no two tasks of a list the finalizer returns have the same title.
C18_ReturnedTitlesDistinct ==
    (probe.done /\ probe.result.ok) =>
        Cardinality(Titles(probe.result.tasks)) = Len(probe.result.tasks)

\* the profile of the scenario, as the application stores it
ScenarioProfile == Profile("model", "web", "python", "django", "beginner", "", 10)

\* the titles of a list of tasks, in order
TitleSeq(tasks) == [i \in 1..Len(tasks) |-> tasks[i].d["title"].s]

\* C19: for the profile web, python, django, beginner, 10 hours and a service
\* without a client, generate_roadmap returns six tasks: the core concepts
\* task (12h), "Master Python Essentials" (18h), "Django Framework Mastery"
\* (30h) depending on exactly "Master Python Essentials", then the practice,
\* the project and the testing and deployment tasks.
C19_ScenarioFallbackTasks ==
    (Ended /\ ~client /\ call.profile = ScenarioProfile) =>
        /\ TitleSeq(call.tasks) =
              << "Web Development Core Concepts Deep Dive",
                 "Master Python Essentials",
                 "Django Framework Mastery",
                 "Hands-on Coding Practice",
                 "Build a Real Web Development Project",
                 "Testing and Deployment" >>
        /\ call.tasks[1].d["estimated_hours"] = JInt(12)
        /\ call.tasks[2].d["estimated_hours"] = JInt(18)
        /\ call.tasks[3].d["estimated_hours"] = JInt(30)
        /\ call.tasks[3].d["dependencies"] = JList(<<JStr("Master Python Essentials")>>)

\* a call for the scenario's profile has returned without a client
C19_Witness ==
    /\ Ended
    /\ ~client
    /\ call.profile = ScenarioProfile
    /\ call.source = "no_client"
    /\ Len(call.tasks) = 6

\* the list has a task of the category
HasCategory(tasks, category) ==
    \E i \in 1..Len(tasks) : tasks[i].d["category"] = JStr(category)

\* C20: the fallback generator's list has a language-mastery task exactly
\* when the profile's programming_language is not "none", and a
\* framework-mastery task exactly when its framework is not "none", for a
\* plain attribute object and for a profile with display-name methods.
C20_MasteryTasksIffChosen ==
    \A i \in 1..Len(probe.runs) :
        /\ HasCategory(probe.runs[i].tasks, "language")
              <=> probe.profile.programming_language # "none"
        /\ HasCategory(probe.runs[i].tasks, "framework")
              <=> probe.profile.framework # "none"

\* the documentation-table entry for a language code, the generic
\* learning-platform URL for a code the table does not have
LanguageTableUrl(code) ==
    IF code \in DOMAIN LanguageDocUrls THEN LanguageDocUrls[code] ELSE FreeCodeCamp

\* the same for a framework code
FrameworkTableUrl(code) ==
    IF code \in DOMAIN FrameworkDocUrls THEN FrameworkDocUrls[code] ELSE FreeCodeCamp

\* C21: in the fallback generator's list the resource of the language-mastery
\* task has the documentation-table URL of the profile's language code and
\* that of the framework-mastery task the table URL of the profile's
\* framework code, the generic URL only for a code that is no key of the
\* table; for plain profiles and for profiles with display-name methods.
C21_DocUrlsByCode ==
    \A i \in 1..Len(probe.runs) :
        \A j \in 1..Len(probe.runs[i].tasks) :
            /\ probe.runs[i].tasks[j].d["category"] = JStr("language") =>
                  probe.runs[i].tasks[j].d["resources"].xs[1].d["url"]
                      = JStr(LanguageTableUrl(probe.profile.programming_language))
            /\ probe.runs[i].tasks[j].d["category"] = JStr("framework") =>
                  probe.runs[i].tasks[j].d["resources"].xs[1].d["url"]
                      = JStr(FrameworkTableUrl(probe.profile.framework))

\* the titles of the tasks the generator composes for a list, in order: the
\* foundational ones, the language and framework tasks the list has, then
\* practice, project and testing
ComposedCategories(tasks, skill_level) ==
    (IF skill_level = "absolute_beginner" THEN <<"concept", "tool">> ELSE <<"concept">>)
    \o (IF HasCategory(tasks, "language") THEN <<"language">> ELSE <<>>)
    \o (IF HasCategory(tasks, "framework") THEN <<"framework">> ELSE <<>>)
    \o <<"practice", "project", "practice">>

\* clamp(time_commitment div 3, 6, 10)
FallbackCount(time_commitment) ==
    IF time_commitment \div 3 < 6 THEN 6
    ELSE IF time_commitment \div 3 > 10 THEN 10
    ELSE time_commitment \div 3

\* the categories of a list of tasks, in order
CategorySeq(tasks) == [i \in 1..Len(tasks) |-> tasks[i].d["category"].s]

\* C22: the fallback generator returns the first
\* min(n, clamp(time_commitment div 3, 6, 10)) of the n tasks it composes,
\* in the order foundational, language, framework, practice, project,
\* testing; a task is dropped only when 7 tasks are composed (absolute
\* beginner with a language and a framework task) and time_commitment < 21,
\* and it is the testing and deployment task, the last one.
C22_FallbackKeepsPrefix ==
    \A i \in 1..Len(probe.runs) :
        /\ Len(probe.runs[i].tasks) =
              Min({Len(ComposedCategories(probe.runs[i].tasks, probe.profile.skill_level)),
                   FallbackCount(probe.profile.time_commitment)})
        /\ CategorySeq(probe.runs[i].tasks) =
              Take(ComposedCategories(probe.runs[i].tasks, probe.profile.skill_level),
                   Len(probe.runs[i].tasks))
        /\ Len(probe.runs[i].tasks)
               < Len(ComposedCategories(probe.runs[i].tasks, probe.profile.skill_level))
           => /\ Len(ComposedCategories(probe.runs[i].tasks, probe.profile.skill_level)) = 7
              /\ probe.profile.skill_level = "absolute_beginner"
              /\ probe.profile.time_commitment < 21
              /\ Len(probe.runs[i].tasks) = 6
              /\ JStr("Testing and Deployment") \notin Titles(probe.runs[i].tasks)
        /\ Len(probe.runs[i].tasks)
               = Len(ComposedCategories(probe.runs[i].tasks, probe.profile.skill_level))
           => probe.runs[i].tasks[Len(probe.runs[i].tasks)].d["title"]
                  = JStr("Testing and Deployment")

\* a run for an absolute beginner with python and django and 10 hours has
\* composed seven tasks and returned six
C22_Witness ==
    /\ Len(probe.runs) >= 1
    /\ probe.profile.skill_level = "absolute_beginner"
    /\ probe.profile.programming_language = "python"
    /\ probe.profile.framework = "django"
    /\ probe.profile.time_commitment = 10
    /\ Len(probe.runs[1].tasks) = 6
    /\ Len(ComposedCategories(probe.runs[1].tasks, "absolute_beginner")) = 7

\* C23: in every sequence of generate_roadmap, get_cache_info and clear_cache
\* operations, an operation other than clear_cache keeps every cache entry
\* there is; clear_cache leaves the cache empty; and with a client the
\* generate_roadmap that follows a clear_cache sends a request to the gateway.
C23_OnlyClearRemovesEntries ==
    [][ /\ call'.op # "clear_cache" =>
              \A k \in DOMAIN roadmap_cache :
                  k \in DOMAIN roadmap_cache' /\ roadmap_cache'[k] = roadmap_cache[k]
        /\ call'.op = "clear_cache" => roadmap_cache' = <<>>
        /\ (call.op = "clear_cache" /\ call'.op = "generate_roadmap" /\ client) =>
              /\ pc' = "gateway"
              /\ call'.status = "waiting"
              /\ gateway_requests' = gateway_requests + 1 ]_vars

\* clear_cache has just removed an entry that a generate_roadmap call made
C23_Witness ==
    /\ call.op = "clear_cache"
    /\ call.info.cleared >= 1
    /\ roadmap_cache = <<>>
    /\ gateway_requests >= 1

\* the first 30 characters of a text
First30(text) == IF Len(text) > 30 THEN SubSeq(text, 1, 30) ELSE text

\* the seven values of a request that the key is made of, in lower case
KeyValues(request) ==
    << Lower(request.roadmap_name),
       Lower(request.profile.technology_domain),
       Lower(request.profile.programming_language),
       Lower(request.profile.framework),
       Lower(request.profile.skill_level),
       request.profile.time_commitment,
       Lower(First30(request.profile.learning_goals)) >>

\* C24: two requests that agree, up to letter case, on roadmap name, domain,
\* language, framework, skill level, time commitment and the first 30
\* characters of the goals get the same key from _create_cache_key; goals
\* text after the 30th character does not change the key.
C24_KeyOfSevenValues ==
    (probe.done /\ KeyValues(probe.a) = KeyValues(probe.b)) => probe.key_a = probe.key_b

\* two requests that differ in letter case and in the goals after the 30th
\* character have got their keys
C24_Witness ==
    /\ probe.done
    /\ probe.a.roadmap_name = "Web Path"
    /\ probe.b.roadmap_name = "web path"
    /\ probe.a.profile.learning_goals = LongGoals \o "x"
    /\ probe.b.profile.learning_goals = LongGoals \o "y"
    /\ probe.a.profile.programming_language # probe.b.profile.programming_language
    /\ KeyValues(probe.a) = KeyValues(probe.b)

\* C25: two requests that differ, after lowercasing, in one of the seven
\* values get different keys from _create_cache_key.
C25_KeysDoNotCollide ==
    (probe.done /\ KeyValues(probe.a) # KeyValues(probe.b)) => probe.key_a # probe.key_b

\* both threads have returned from calls with the same cache key
BothReturned ==
    /\ \A t \in Threads : probe.calls[t].status = "returned"
    /\ probe.calls[1].cache_key = probe.calls[2].cache_key

\* C26: when two concurrent generate_roadmap calls with the same cache key
\* have both returned, whatever the interleaving, each has returned a
\* non-empty list, and the cache entry of that key, if there is one, is the
\* list that one of the two calls returned. Both calls can miss the cache and
\* both send a gateway request.
C26_ConcurrentCallsSameKey ==
    ("calls" \in DOMAIN probe /\ BothReturned) =>
        /\ \A t \in Threads : probe.calls[t].tasks # <<>>
        /\ probe.calls[1].cache_key \in DOMAIN roadmap_cache =>
               \E t \in Threads :
                   roadmap_cache[probe.calls[1].cache_key] = probe.calls[t].tasks

\* both calls missed the cache, both sent a gateway request and both
\* returned a list of their own made from the model's answer
C26_Witness ==
    /\ "calls" \in DOMAIN probe
    /\ BothReturned
    /\ gateway_requests = 2
    /\ \A t \in Threads :
           probe.calls[t].gateway_calls = 1 /\ probe.calls[t].source = "model"
    /\ probe.calls[1].tasks # probe.calls[2].tasks
    /\ probe.calls[1].cache_key \in DOMAIN roadmap_cache

\* tasks has a task marked as made from the model's answer
HasModelTask(tasks) ==
    \E i \in 1..Len(tasks) :
        "ai_generated" \in DOMAIN tasks[i].d /\ tasks[i].d["ai_generated"] = JBool(TRUE)

\* C27: every list in the cache has at least one admitted model task
\* (ai_generated = true); a list made by the fallback generator alone is
\* never cached.
C27_CachedListsHaveModelTask ==
    \A k \in DOMAIN roadmap_cache : HasModelTask(roadmap_cache[k])

\* the titles of the tasks before place i
TitlesBefore(tasks, i) == {tasks[j].d["title"] : j \in 1..(i - 1)}

\* a task made by the fallback generator
IsFallbackTask(task) ==
    "ai_generated" \in DOMAIN task.d /\ task.d["ai_generated"] = JBool(FALSE)

\* every dependency of the fallback task at place i is the title of a task
\* before it
DependsOnEarlier(tasks, i) ==
    IsFallbackTask(tasks[i]) =>
        \A k \in 1..Len(tasks[i].d["dependencies"].xs) :
            tasks[i].d["dependencies"].xs[k] \in TitlesBefore(tasks, i)

\* C28: in the list _finalize_task_list returns, be it the fallback
\* generator's list (no admitted task) or a supplemented list, every
\* dependency of a fallback task is the exact title of a task earlier in the
\* list, for every skill level, language, framework and time commitment.
C28_DependenciesNameEarlierTasks ==
    (probe.done /\ probe.result.ok) =>
        \A i \in 1..Len(probe.result.tasks) : DependsOnEarlier(probe.result.tasks, i)

\* a supplemented list whose appended framework task depends on the appended
\* language task, and whose appended project task depends on a model task
C28_Witness ==
    /\ probe.done
    /\ probe.result.ok
    /\ Len(probe.tasks) \in 1..5
    /\ \E i \in 1..Len(probe.result.tasks) :
           /\ IsFallbackTask(probe.result.tasks[i])
           /\ probe.result.tasks[i].d["category"] = JStr("framework")
           /\ probe.result.tasks[i].d["dependencies"].xs # <<>>
    /\ \E i \in 1..Len(probe.result.tasks) :
           /\ IsFallbackTask(probe.result.tasks[i])
           /\ probe.result.tasks[i].d["dependencies"].xs = <<JStr("Hands-on Coding Practice")>>
           /\ \E j \in 1..(i - 1) :
                  /\ ~IsFallbackTask(probe.result.tasks[j])
                  /\ probe.result.tasks[j].d["title"] = JStr("Hands-on Coding Practice")

Priorities == {JStr("high"), JStr("medium"), JStr("low")}

\* C29: every task of a list that generate_roadmap returns has a priority
\* that is one of high, medium and low.
C29_ReturnedPrioritiesKnown ==
    (call.op = "generate_roadmap" /\ call.status = "returned") =>
        \A i \in 1..Len(call.tasks) :
            /\ "priority" \in DOMAIN call.tasks[i].d
            /\ call.tasks[i].d["priority"] \in Priorities

\* a complete profile has a domain and a skill level
CompleteProfileFilled ==
    is_profile_complete(probe.profile) =>
        probe.profile.technology_domain # "" /\ probe.profile.skill_level # ""

\* C30: after any sequence of Step1 to Step4 POST requests a profile with
\* step_completed = 5 has a non-empty technology_domain and a non-empty
\* skill_level, and step_completed never decreases from one request to the
\* next.
C30_WizardCompletesInOrder ==
    /\ []CompleteProfileFilled
    /\ [][probe'.profile.step_completed >= probe.profile.step_completed]_vars
====
